---------------------------- MODULE Spec2Model ----------------------------
(***************************************************************************)
(* A model of the batch protocol codec, the record stream demuxer and the  *)
(* query cursor of reduct-py.                                              *)
(*                                                                         *)
(* Strings are sequences of byte codes (ASCII), so that the formatting and *)
(* the parsing of header names and header values are computed character    *)
(* by character, as the Python code computes them.                         *)
(***************************************************************************)
EXTENDS Integers, Sequences, FiniteSets, TLC

(***************************************************************************)
(* Characters the codec tests for, by byte code.                           *)
(***************************************************************************)
Ch == [ space |-> 32, quote |-> 34, pct |-> 37, plus |-> 43, comma |-> 44,
        dash |-> 45, slash |-> 47, zero |-> 48, eq |-> 61, at |-> 64 ]

Min(a, b) == IF a < b THEN a ELSE b

Max(a, b) == IF a < b THEN b ELSE a

(* Python str/bytes helpers ----------------------------------------------*)

Contains(s, c) == \E i \in 1..Len(s) : s[i] = c

\* s.find(c): the first index of c in s (1-based), 0 when absent
Find(s, c) ==
    IF Contains(s, c) THEN CHOOSE i \in 1..Len(s) : s[i] = c /\ \A j \in 1..(i - 1) : s[j] # c
    ELSE 0

\* s.rfind(c): the last index of c in s (1-based), 0 when absent
RFind(s, c) ==
    IF Contains(s, c) THEN CHOOSE i \in 1..Len(s) : s[i] = c /\ \A j \in (i + 1)..Len(s) : s[j] # c
    ELSE 0

StartsWith(s, p) == Len(s) >= Len(p) /\ SubSeq(s, 1, Len(p)) = p

Drop(s, n) == SubSeq(s, n + 1, Len(s))

\* s.split(c, 1) of a string that contains c: <<head, tail>>
Split1(s, c) == LET i == Find(s, c) IN <<SubSeq(s, 1, i - 1), Drop(s, i)>>

\* s.rsplit(c, 1) of a string that contains c: <<head, tail>>
RSplit1(s, c) == LET i == RFind(s, c) IN <<SubSeq(s, 1, i - 1), Drop(s, i)>>

\* s.split(c): all the fields of s
RECURSIVE SplitAll(_, _)
SplitAll(s, c) ==
    IF Contains(s, c) THEN <<Split1(s, c)[1]>> \o SplitAll(Split1(s, c)[2], c)
    ELSE <<s>>

\* c.join(parts)
RECURSIVE Join(_, _)
Join(parts, c) ==
    IF parts = <<>> THEN <<>>
    ELSE IF Len(parts) = 1 THEN parts[1]
    ELSE parts[1] \o <<c>> \o Join(Tail(parts), c)

IsSpace(c) == c \in {9, 10, 11, 12, 13, 32}

RECURSIVE LStrip(_)
LStrip(s) == IF s # <<>> /\ IsSpace(s[1]) THEN LStrip(Tail(s)) ELSE s

RECURSIVE RStrip(_)
RStrip(s) == IF s # <<>> /\ IsSpace(s[Len(s)]) THEN RStrip(SubSeq(s, 1, Len(s) - 1)) ELSE s

Strip(s) == LStrip(RStrip(s))

\* s.lstrip(",")
RECURSIVE LStripChar(_, _)
LStripChar(s, c) == IF s # <<>> /\ s[1] = c THEN LStripChar(Tail(s), c) ELSE s

IsDigitCh(c) == c \in 48..57

\* str.isdigit(): non-empty and all digits
IsDigit(s) == s # <<>> /\ \A i \in 1..Len(s) : IsDigitCh(s[i])

\* str.lower() on ASCII
Lower(s) == [i \in 1..Len(s) |-> IF s[i] \in 65..90 THEN s[i] + 32 ELSE s[i]]

\* lexicographic order of Python on str and on bytes
RECURSIVE StrLess(_, _)
StrLess(a, b) ==
    IF b = <<>> THEN FALSE
    ELSE IF a = <<>> THEN TRUE
    ELSE IF a[1] # b[1] THEN a[1] < b[1]
    ELSE StrLess(Tail(a), Tail(b))

\* str(n) of a natural number
RECURSIVE Dec(_)
Dec(n) == IF n < 10 THEN <<48 + n>> ELSE Dec(n \div 10) \o <<48 + (n % 10)>>

RECURSIVE DigitsVal(_)
DigitsVal(s) == IF s = <<>> THEN 0 ELSE 10 * DigitsVal(SubSeq(s, 1, Len(s) - 1)) + (s[Len(s)] - 48)

\* int(s): surrounding white space is dropped, one sign is accepted
\* (digit-group underscores are outside the modelled alphabet)
ParseInt(s) ==
    LET t == Strip(s)
        signed == t # <<>> /\ t[1] \in {Ch.plus, Ch.dash}
        d == IF signed THEN Tail(t) ELSE t
    IN  IF IsDigit(d)
        THEN [ok |-> TRUE, val |-> IF signed /\ t[1] = Ch.dash THEN 0 - DigitsVal(d) ELSE DigitsVal(d)]
        ELSE [ok |-> FALSE, val |-> 0]

(* Entry name codec (batch protocol v2) -----------------------------------*)

TCharPunct == {33, 35, 36, 37, 38, 39, 42, 43, 45, 46, 94, 95, 96, 124, 126}

_is_tchar(byte) ==
    \/ 48 <= byte /\ byte <= 57
    \/ 65 <= byte /\ byte <= 90
    \/ 97 <= byte /\ byte <= 122
    \/ byte \in TCharPunct

HexDigit(v) == IF v < 10 THEN 48 + v ELSE 55 + v

\* f"%{byte:02X}"
PctEscape(byte) == <<Ch.pct, HexDigit(byte \div 16), HexDigit(byte % 16)>>

RECURSIVE _encode_entry_name(_)
_encode_entry_name(entry) ==
    IF entry = <<>> THEN <<>>
    ELSE (IF _is_tchar(entry[1]) THEN <<entry[1]>> ELSE PctEscape(entry[1]))
         \o _encode_entry_name(Tail(entry))

IsHexCh(c) == c \in (48..57) \cup (65..70) \cup (97..102)

HexVal(c) == IF c \in 48..57 THEN c - 48 ELSE IF c \in 65..70 THEN c - 55 ELSE c - 87

\* int(two characters, 16): two hex digits, or one hex digit with a sign
\* before it or white space beside it; a negative value is no byte
HexByte(a, b) ==
    IF IsHexCh(a) /\ IsHexCh(b) THEN [ok |-> TRUE, val |-> 16 * HexVal(a) + HexVal(b)]
    ELSE IF (a = Ch.plus \/ IsSpace(a)) /\ IsHexCh(b) THEN [ok |-> TRUE, val |-> HexVal(b)]
    ELSE IF a = Ch.dash /\ b = Ch.zero THEN [ok |-> TRUE, val |-> 0]
    ELSE IF IsHexCh(a) /\ IsSpace(b) THEN [ok |-> TRUE, val |-> HexVal(a)]
    ELSE [ok |-> FALSE, val |-> 0]

\* the percent-decoding loop: the bytes, or <<-1>> for a malformed escape
RECURSIVE PctDecodeBytes(_)
PctDecodeBytes(raw) ==
    IF raw = <<>> THEN <<>>
    ELSE IF raw[1] = Ch.pct
         THEN IF Len(raw) <= 2 THEN <<-1>>
              ELSE LET h == HexByte(raw[2], raw[3])
                       rest == PctDecodeBytes(Drop(raw, 3))
                   IN  IF ~h.ok \/ rest = <<-1>> THEN <<-1>> ELSE <<h.val>> \o rest
         ELSE LET rest == PctDecodeBytes(Tail(raw))
              IN  IF rest = <<-1>> THEN <<-1>> ELSE <<raw[1]>> \o rest

\* bytes.decode("utf-8") for code points below 0x800: the code points, or
\* <<-1>> when the bytes are not UTF-8
RECURSIVE Utf8Decode(_)
Utf8Decode(b) ==
    IF b = <<>> THEN <<>>
    ELSE IF b[1] < 128
         THEN LET rest == Utf8Decode(Tail(b))
              IN  IF rest = <<-1>> THEN <<-1>> ELSE <<b[1]>> \o rest
    ELSE IF b[1] \in 194..223 /\ Len(b) >= 2 /\ b[2] \in 128..191
         THEN LET rest == Utf8Decode(Drop(b, 2))
              IN  IF rest = <<-1>> THEN <<-1>>
                  ELSE <<(b[1] - 192) * 64 + (b[2] - 128)>> \o rest
    ELSE <<-1>>

_decode_entry_name(encoded) ==
    LET bytes == PctDecodeBytes(encoded)
    IN  IF bytes = <<-1>> THEN [ok |-> FALSE, val |-> <<>>]
        ELSE LET text == Utf8Decode(bytes)
             IN  IF text = <<-1>> THEN [ok |-> FALSE, val |-> <<>>]
                 ELSE [ok |-> TRUE, val |-> text]

(* Wire header names (batch protocol v2) ----------------------------------*)

\* "x-reduct-"
HEADER_PREFIX == <<120, 45, 114, 101, 100, 117, 99, 116, 45>>

\* "x-reduct-error-"
ERROR_HEADER_PREFIX == <<120, 45, 114, 101, 100, 117, 99, 116, 45, 101, 114, 114, 111, 114, 45>>

\* "x-reduct-entries"
ENTRIES_HEADER == <<120, 45, 114, 101, 100, 117, 99, 116, 45, 101, 110, 116, 114, 105, 101, 115>>

\* "x-reduct-start-ts"
START_TS_HEADER == <<120, 45, 114, 101, 100, 117, 99, 116, 45, 115, 116, 97, 114, 116, 45, 116, 115>>

\* "x-reduct-labels"
LABELS_HEADER == <<120, 45, 114, 101, 100, 117, 99, 116, 45, 108, 97, 98, 101, 108, 115>>

\* "Content-Type"
CONTENT_TYPE_HEADER == <<67, 111, 110, 116, 101, 110, 116, 45, 84, 121, 112, 101>>

\* "application/octet-stream"
OCTET_STREAM == <<97, 112, 112, 108, 105, 99, 97, 116, 105, 111, 110, 47, 111, 99, 116, 101, 116, 45, 115, 116, 114, 101, 97, 109>>

(* Header maps: a Python dict, as the sequence of its <<name, value>>      *)
(* items in insertion order.                                               *)

HasKey(headers, name) == \E i \in 1..Len(headers) : headers[i][1] = name

\* headers.get(name, "")
GetOr(headers, name, default) ==
    IF HasKey(headers, name)
    THEN headers[CHOOSE i \in 1..Len(headers) : headers[i][1] = name][2]
    ELSE default

\* headers[name] = value
Put(headers, name, value) ==
    IF HasKey(headers, name)
    THEN [i \in 1..Len(headers) |->
            IF headers[i][1] = name THEN <<name, value>> ELSE headers[i]]
    ELSE Append(headers, <<name, value>>)

(* Label maps: a Python dict[str, str], as a function from its keys. ------*)

EmptyLabels == [k \in {} |-> <<>>]

LabelsGet(labels, key) == IF key \in DOMAIN labels THEN labels[key] ELSE <<-1>>

LabelsSet(labels, key, value) ==
    [k \in (DOMAIN labels) \cup {key} |-> IF k = key THEN value ELSE labels[k]]

LabelsPop(labels, key) == [k \in (DOMAIN labels) \ {key} |-> labels[k]]

\* sorted(keys) of a set of strings
RECURSIVE SortStrs(_)
SortStrs(S) ==
    IF S = {} THEN <<>>
    ELSE LET m == CHOOSE x \in S : \A y \in S \ {x} : StrLess(x, y)
         IN  <<m>> \o SortStrs(S \ {m})

\* the position of an element of a list, counted from 0
IndexOf(list, x) == (CHOOSE i \in 1..Len(list) : list[i] = x) - 1

InList(list, x) == \E i \in 1..Len(list) : list[i] = x

(* Label delta encoding ---------------------------------------------------*)

_format_label_value(value) ==
    IF Contains(value, Ch.comma) THEN <<Ch.quote>> \o value \o <<Ch.quote>> ELSE value

\* ensure_label over a list of keys: the label name table afterwards
RECURSIVE EnsureLabels(_, _)
EnsureLabels(label_names, keys) ==
    IF keys = <<>> THEN label_names
    ELSE EnsureLabels(IF InList(label_names, keys[1]) THEN label_names
                      ELSE Append(label_names, keys[1]), Tail(keys))

\* every label of the record gets an op, whatever the previous record had
EveryKey(labels, previous) == DOMAIN labels

\* the keys _build_label_delta writes an op for
DeltaKeys(labels, previous) ==
    IF ~previous.has THEN DOMAIN labels
    ELSE {k \in (DOMAIN previous.labels) \cup (DOMAIN labels) :
            LabelsGet(previous.labels, k) # LabelsGet(labels, k)}

\* ops.sort(key=index): the ops as <<index, value>>, ascending by index
RECURSIVE SortOps(_)
SortOps(S) ==
    IF S = {} THEN <<>>
    ELSE LET m == CHOOSE x \in S : \A y \in S \ {x} : x[1] < y[1]
         IN  <<m>> \o SortOps(S \ {m})

\* _build_label_delta: [delta |-> the label segment, names |-> the table]
_build_label_delta(labels, previous, label_names) ==
    LET keys == DeltaKeys(labels, previous)
        names == EnsureLabels(label_names, SortStrs(keys))
        ops == SortOps({<<IndexOf(names, k),
                          IF k \in DOMAIN labels THEN _format_label_value(labels[k])
                          ELSE <<>>>> : k \in keys})
        texts == [i \in 1..Len(ops) |-> Dec(ops[i][1]) \o <<Ch.eq>> \o ops[i][2]]
    IN  [delta |-> Join(texts, Ch.comma), names |-> names]


(* RecordBatch (batch protocol v2) ----------------------------------------*)

\* entry=None
NoEntry == <<-1>>

\* the order of sorted() on the (entry, timestamp) keys of the batch
KeyLess(a, b) ==
    \/ StrLess(a.entry, b.entry)
    \/ a.entry = b.entry /\ a.timestamp < b.timestamp

\* a stable insertion of x into a list sorted by KeyLess
RECURSIVE InsertByKey(_, _)
InsertByKey(sorted, x) ==
    IF sorted = <<>> THEN <<x>>
    ELSE IF KeyLess(x, sorted[1]) THEN <<x>> \o sorted
    ELSE <<sorted[1]>> \o InsertByKey(Tail(sorted), x)

RECURSIVE SortByKey(_)
SortByKey(seq) ==
    IF seq = <<>> THEN <<>>
    ELSE InsertByKey(SortByKey(SubSeq(seq, 1, Len(seq) - 1)), seq[Len(seq)])

\* BaseBatch._add: self._records[(entry, ts)] = record
BatchAdd(recs, r) ==
    IF \E i \in 1..Len(recs) : recs[i].entry = r.entry /\ recs[i].timestamp = r.timestamp
    THEN [i \in 1..Len(recs) |->
            IF recs[i].entry = r.entry /\ recs[i].timestamp = r.timestamp THEN r ELSE recs[i]]
    ELSE Append(recs, r)

\* BaseBatch.items()
BatchItems(recs) == SortByKey(recs)

\* the distinct entries of a sorted item list, in order of first occurrence
RECURSIVE FirstSeen(_, _)
FirstSeen(items, entries) ==
    IF items = <<>> THEN entries
    ELSE FirstSeen(Tail(items),
                   IF InList(entries, items[1].entry) THEN entries
                   ELSE Append(entries, items[1].entry))

\* a start timestamp taken from the first record
FirstOf(f, n) == f[1]

SeqMin(f, n) == CHOOSE m \in {f[i] : i \in 1..n} : \A i \in 1..n : m <= f[i]

\* the order of indexed_records.sort on (entry index, timestamp)
IndexedLess(a, b) == a.index < b.index \/ (a.index = b.index /\ a.timestamp < b.timestamp)

RECURSIVE InsertIndexed(_, _)
InsertIndexed(sorted, x) ==
    IF sorted = <<>> THEN <<x>>
    ELSE IF IndexedLess(x, sorted[1]) THEN <<x>> \o sorted
    ELSE <<sorted[1]>> \o InsertIndexed(Tail(sorted), x)

RECURSIVE SortIndexed(_)
SortIndexed(seq) ==
    IF seq = <<>> THEN <<>>
    ELSE InsertIndexed(SortIndexed(SubSeq(seq, 1, Len(seq) - 1)), seq[Len(seq)])

_prepare_records_v2(recs) ==
    LET items == BatchItems(recs)
    IN  IF items = <<>> THEN [ok |-> TRUE, entries |-> <<>>, start_ts |-> 0, indexed |-> <<>>]
        ELSE IF \E i \in 1..Len(items) : items[i].entry = NoEntry
        THEN [ok |-> FALSE, entries |-> <<>>, start_ts |-> 0, indexed |-> <<>>]
        ELSE LET entries == FirstSeen(items, <<>>)
             IN  [ok |-> TRUE,
                  entries |-> entries,
                  start_ts |-> SeqMin([i \in 1..Len(items) |-> items[i].timestamp], Len(items)),
                  indexed |-> SortIndexed([i \in 1..Len(items) |->
                                 [index |-> IndexOf(entries, items[i].entry),
                                  timestamp |-> items[i].timestamp,
                                  record |-> items[i]]])]

NoMeta == [has |-> FALSE, content_type |-> <<>>, labels |-> EmptyLabels]

\* last_meta[entry_index], when present
MetaOf(last_meta, index) == IF index \in DOMAIN last_meta THEN last_meta[index] ELSE NoMeta

\* one turn of the loop of make_headers_v2 over indexed_records
HeaderStepV2(acc, item, start_ts) ==
    LET record == item.record
        delta == item.timestamp - start_ts
        content_type == IF record.content_type # <<>> THEN record.content_type ELSE OCTET_STREAM
        prev == MetaOf(acc.last_meta, item.index)
        content_type_part == IF ~prev.has \/ prev.content_type # content_type
                             THEN content_type ELSE <<>>
        built == _build_label_delta(record.labels, prev, acc.label_names)
        has_labels == built.delta # <<>>
        header_parts == <<Dec(record.size)>>
                        \o (IF content_type_part # <<>> \/ has_labels
                            THEN <<content_type_part>> ELSE <<>>)
                        \o (IF has_labels THEN <<built.delta>> ELSE <<>>)
        name == HEADER_PREFIX \o Dec(item.index) \o <<Ch.dash>> \o Dec(delta)
    IN  [headers |-> Put(acc.headers, name, Join(header_parts, Ch.comma)),
         content_length |-> acc.content_length + record.size,
         label_names |-> built.names,
         last_meta |-> [k \in (DOMAIN acc.last_meta) \cup {item.index} |->
                          IF k = item.index
                          THEN [has |-> TRUE, content_type |-> content_type,
                                labels |-> record.labels]
                          ELSE acc.last_meta[k]]]

RECURSIVE HeaderLoopV2(_, _, _)
HeaderLoopV2(acc, indexed, start_ts) ==
    IF indexed = <<>> THEN acc
    ELSE HeaderLoopV2(HeaderStepV2(acc, indexed[1], start_ts), Tail(indexed), start_ts)

EncodeNames(names) == Join([i \in 1..Len(names) |-> _encode_entry_name(names[i])], Ch.comma)

\* make_headers_v2(batch): [ok, content_length, headers]
make_headers_v2(recs) ==
    IF BatchItems(recs) = <<>>
    THEN [ok |-> TRUE, content_length |-> 0,
          headers |-> <<<<ENTRIES_HEADER, <<>>>>, <<START_TS_HEADER, <<Ch.zero>>>>,
                        <<CONTENT_TYPE_HEADER, OCTET_STREAM>>>>]
    ELSE LET prep == _prepare_records_v2(recs)
         IN  IF ~prep.ok THEN [ok |-> FALSE, content_length |-> 0, headers |-> <<>>]
             ELSE LET first == <<<<ENTRIES_HEADER, EncodeNames(prep.entries)>>,
                                 <<START_TS_HEADER, Dec(prep.start_ts)>>>>
                      acc == HeaderLoopV2([headers |-> first, content_length |-> 0,
                                           label_names |-> <<>>,
                                           last_meta |-> [k \in {} |-> NoMeta]],
                                          prep.indexed, prep.start_ts)
                      labelled == IF acc.label_names # <<>>
                                  THEN Put(acc.headers, LABELS_HEADER, EncodeNames(acc.label_names))
                                  ELSE acc.headers
                  IN  [ok |-> TRUE, content_length |-> acc.content_length,
                       headers |-> Put(labelled, CONTENT_TYPE_HEADER, OCTET_STREAM)]


(* Batch protocol v2 header decoding --------------------------------------*)

Fail == [ok |-> FALSE, val |-> <<>>]

Ok(v) == [ok |-> TRUE, val |-> v]

\* [_decode_entry_name(x.strip()) for x in text.split(",")]
DecodeNames(text) ==
    LET parts == SplitAll(text, Ch.comma)
        decoded == [i \in 1..Len(parts) |-> _decode_entry_name(Strip(parts[i]))]
    IN  IF \E i \in 1..Len(parts) : ~decoded[i].ok THEN Fail
        ELSE Ok([i \in 1..Len(parts) |-> decoded[i].val])

_parse_entries_header(headers) ==
    LET entries == GetOr(headers, ENTRIES_HEADER, <<>>)
    IN  IF entries = <<>> THEN Fail ELSE DecodeNames(entries)

_parse_start_timestamp(headers) ==
    LET start_ts == GetOr(headers, START_TS_HEADER, <<>>)
    IN  IF start_ts = <<>> THEN [ok |-> FALSE, val |-> 0] ELSE ParseInt(start_ts)

_parse_labels_header(labels) ==
    IF Strip(labels) = <<>> THEN Fail ELSE DecodeNames(Strip(labels))

\* label_names is [has |-> FALSE] for None
_resolve_label_name(raw, label_names) ==
    LET idx == ParseInt(raw)
    IN  IF label_names.has /\ idx.ok
        THEN IF idx.val < 0 \/ idx.val >= Len(label_names.val) THEN Fail
             ELSE Ok(label_names.val[idx.val + 1])
        ELSE IF raw # <<>> /\ raw[1] = Ch.at THEN Fail
        ELSE Ok(raw)

\* the value None of an op that removes its label
Removed == <<-1>>

\* the while loop of _parse_label_delta_ops over rest: the ops <<key, value>>
RECURSIVE DeltaOpsLoop(_, _)
DeltaOpsLoop(rest, label_names) ==
    IF rest = <<>> THEN Ok(<<>>)
    ELSE IF ~Contains(rest, Ch.eq) THEN Fail
    ELSE LET raw_key == Split1(rest, Ch.eq)[1]
             value_part == Split1(rest, Ch.eq)[2]
             key == _resolve_label_name(Strip(raw_key), label_names)
             quoted == value_part # <<>> /\ value_part[1] = Ch.quote
             unquoted == Tail(value_part)
             bad == quoted /\ ~Contains(unquoted, Ch.quote)
             value == IF quoted THEN Split1(unquoted, Ch.quote)[1]
                      ELSE IF Contains(value_part, Ch.comma) THEN Split1(value_part, Ch.comma)[1]
                      ELSE value_part
             next == IF quoted THEN Strip(LStripChar(Split1(unquoted, Ch.quote)[2], Ch.comma))
                     ELSE IF Contains(value_part, Ch.comma)
                     THEN Strip(Split1(value_part, Ch.comma)[2])
                     ELSE <<>>
         IN  IF ~key.ok \/ bad THEN Fail
             ELSE LET more == DeltaOpsLoop(next, label_names)
                  IN  IF ~more.ok THEN Fail
                      ELSE Ok(<<<<key.val, IF Strip(value) # <<>> THEN Strip(value) ELSE Removed>>>>
                              \o more.val)

_parse_label_delta_ops(raw_labels, label_names) == DeltaOpsLoop(Strip(raw_labels), label_names)

RECURSIVE ApplyOps(_, _)
ApplyOps(labels, ops) ==
    IF ops = <<>> THEN labels
    ELSE ApplyOps(IF ops[1][2] = Removed THEN LabelsPop(labels, ops[1][1])
                  ELSE LabelsSet(labels, ops[1][1], ops[1][2]), Tail(ops))

_apply_label_delta(raw_labels, base, label_names) ==
    LET ops == _parse_label_delta_ops(raw_labels, label_names)
    IN  IF ~ops.ok THEN Fail ELSE Ok(ApplyOps(base, ops.val))

\* a decoder that starts every record without labels
DroppedLabels(previous) == EmptyLabels

\* dict(previous.labels) if previous else {}
InheritedLabels(previous) == previous.labels

\* previous is NoMeta for None; the result's val is a RecordHeader
_parse_record_header_with_defaults(raw, previous, label_names) ==
    LET has_rest == Contains(raw, Ch.comma)
        content_length == ParseInt(IF has_rest THEN Split1(raw, Ch.comma)[1] ELSE raw)
        rest == IF has_rest THEN Split1(raw, Ch.comma)[2] ELSE <<>>
        has_labels == Contains(rest, Ch.comma)
        content_type_raw == Strip(IF has_labels THEN Split1(rest, Ch.comma)[1] ELSE rest)
        content_type == IF content_type_raw # <<>> THEN content_type_raw
                        ELSE IF previous.has THEN previous.content_type
                        ELSE OCTET_STREAM
        labels == IF has_labels
                  THEN _apply_label_delta(Split1(rest, Ch.comma)[2], previous.labels, label_names)
                  ELSE Ok(InheritedLabels(previous))
    IN  IF ~content_length.ok THEN Fail
        ELSE IF ~has_rest
        THEN IF ~previous.has THEN Fail
             ELSE Ok([content_length |-> content_length.val,
                      content_type |-> previous.content_type,
                      labels |-> InheritedLabels(previous)])
        ELSE IF ~labels.ok THEN Fail
        ELSE Ok([content_length |-> content_length.val,
                 content_type |-> content_type,
                 labels |-> labels.val])

\* whether _sort_headers_by_entry_and_time keeps the header of this name
IsRecordHeaderName(name) ==
    LET lower_name == Lower(name)
        suffix == Drop(lower_name, Len(HEADER_PREFIX))
    IN  /\ StartsWith(lower_name, HEADER_PREFIX)
        /\ ~StartsWith(lower_name, ERROR_HEADER_PREFIX)
        /\ Contains(suffix, Ch.dash)
        /\ IsDigit(RSplit1(suffix, Ch.dash)[1])
        /\ IsDigit(RSplit1(suffix, Ch.dash)[2])

\* <<entry index, delta>> of a name that IsRecordHeaderName keeps
_parse_batched_header_name(name) ==
    LET without_prefix == Drop(name, Len(HEADER_PREFIX))
    IN  <<ParseInt(RSplit1(without_prefix, Ch.dash)[1]).val,
          ParseInt(RSplit1(without_prefix, Ch.dash)[2]).val>>

PairLess(a, b) == a[1] < b[1] \/ (a[1] = b[1] /\ a[2] < b[2])

RECURSIVE InsertParsed(_, _)
InsertParsed(sorted, x) ==
    IF sorted = <<>> THEN <<x>>
    ELSE IF PairLess(x, sorted[1]) THEN <<x>> \o sorted
    ELSE <<sorted[1]>> \o InsertParsed(Tail(sorted), x)

\* the headers kept, as <<entry index, delta, value>>, then list.sort (stable)
RECURSIVE SortedRecordHeaders(_)
SortedRecordHeaders(headers) ==
    IF headers = <<>> THEN <<>>
    ELSE LET last == headers[Len(headers)]
             before == SortedRecordHeaders(SubSeq(headers, 1, Len(headers) - 1))
         IN  IF IsRecordHeaderName(last[1])
             THEN LET p == _parse_batched_header_name(Lower(last[1]))
                  IN  InsertParsed(before, <<p[1], p[2], last[2]>>)
             ELSE before

_sort_headers_by_entry_and_time(headers) == SortedRecordHeaders(headers)

\* the loop of _parse_batched_headers: last is last_header_per_entry
RECURSIVE ParseLoopV2(_, _, _, _, _)
ParseLoopV2(sorted, entries, start_ts, label_names, last) ==
    IF sorted = <<>> THEN Ok(<<>>)
    ELSE LET entry_index == sorted[1][1]
             delta == sorted[1][2]
         IN  IF entry_index < 0 \/ entry_index >= Len(entries) THEN Fail
             ELSE LET entry == entries[entry_index + 1]
                      previous == IF entry \in DOMAIN last THEN last[entry] ELSE NoMeta
                      header == _parse_record_header_with_defaults(sorted[1][3], previous,
                                                                   label_names)
                  IN  IF ~header.ok THEN Fail
                      ELSE LET more == ParseLoopV2(Tail(sorted), entries, start_ts, label_names,
                                          [e \in (DOMAIN last) \cup {entry} |->
                                             IF e = entry
                                             THEN [has |-> TRUE,
                                                   content_type |-> header.val.content_type,
                                                   labels |-> header.val.labels]
                                             ELSE last[e]])
                           IN  IF ~more.ok THEN Fail
                               ELSE Ok(<<[entry |-> entry,
                                          timestamp |-> start_ts + delta,
                                          header |-> header.val]>> \o more.val)

\* _parse_batched_headers(headers): the list of EntryRecordHeader, or Fail
_parse_batched_headers(headers) ==
    LET entries == _parse_entries_header(headers)
        start_ts == _parse_start_timestamp(headers)
        labels_raw == GetOr(headers, LABELS_HEADER, <<>>)
        label_names == IF labels_raw # <<>> THEN _parse_labels_header(labels_raw)
                       ELSE [ok |-> TRUE, val |-> <<>>]
    IN  IF ~entries.ok \/ ~start_ts.ok \/ ~label_names.ok THEN Fail
        ELSE ParseLoopV2(_sort_headers_by_entry_and_time(headers), entries.val, start_ts.val,
                         [has |-> labels_raw # <<>>, val |-> label_names.val],
                         [e \in {} |-> NoMeta])


(* Batch protocol v1 (batch_v1.py) ------------------------------------------*)

\* "x-reduct-time-"
TIME_PREFIX == <<120, 45, 114, 101, 100, 117, 99, 116, 45, 116, 105, 109, 101, 45>>

\* "x-reduct-last"
LAST_HEADER == <<120, 45, 114, 101, 100, 117, 99, 116, 45, 108, 97, 115, 116>>

\* "true", "false"
TrueStr == <<116, 114, 117, 101>>

FalseStr == <<102, 97, 108, 115, 101>>

\* resp.headers.get(name, default): the names of a response compare
\* without regard to case
GetHeader(headers, name, default) ==
    IF \E i \in 1..Len(headers) : Lower(headers[i][1]) = name
    THEN headers[CHOOSE i \in 1..Len(headers) :
                    /\ Lower(headers[i][1]) = name
                    /\ \A j \in 1..(i - 1) : Lower(headers[j][1]) # name][2]
    ELSE default

\* f',{label}={value}' for the labels of a record, quoted when the label
\* name holds "," or "="; the dict is taken in the sorted order of its keys
RECURSIVE LabelPartsV1(_, _)
LabelPartsV1(labels, keys) ==
    IF keys = <<>> THEN <<>>
    ELSE LET label == keys[1]
             value == labels[label]
         IN  (IF Contains(label, Ch.comma) \/ Contains(label, Ch.eq)
              THEN <<Ch.comma>> \o label \o <<Ch.eq, Ch.quote>> \o value \o <<Ch.quote>>
              ELSE <<Ch.comma>> \o label \o <<Ch.eq>> \o value)
             \o LabelPartsV1(labels, Tail(keys))

RECURSIVE HeaderLoopV1(_)
HeaderLoopV1(items) ==
    IF items = <<>> THEN [content_length |-> 0, headers |-> <<>>]
    ELSE LET record == items[Len(items)]
             before == HeaderLoopV1(SubSeq(items, 1, Len(items) - 1))
             header == Dec(record.size) \o <<Ch.comma>> \o record.content_type
                       \o LabelPartsV1(record.labels, SortStrs(DOMAIN record.labels))
         IN  [content_length |-> before.content_length + record.size,
              headers |-> Put(before.headers, TIME_PREFIX \o Dec(record.timestamp), header)]

\* make_headers_v1(batch)
make_headers_v1(recs) ==
    LET loop == HeaderLoopV1(BatchItems(recs))
    IN  [ok |-> TRUE, content_length |-> loop.content_length,
         headers |-> Put(loop.headers, CONTENT_TYPE_HEADER, OCTET_STREAM)]

\* the for loop of _parse_header_as_csv_row over the fields of the row:
\* the items it collects
RECURSIVE CsvLoop(_, _)
CsvLoop(fields, escaped) ==
    IF fields = <<>> THEN <<>>
    ELSE LET item == fields[1]
             opened == IF item # <<>> /\ item[1] = Ch.quote /\ escaped = <<>>
                       THEN Tail(item) ELSE escaped
         IN  IF opened # <<>>
             THEN IF item # <<>> /\ item[Len(item)] = Ch.quote
                  THEN <<SubSeq(opened, 1, Len(opened) - 1)>> \o CsvLoop(Tail(fields), <<>>)
                  ELSE CsvLoop(Tail(fields), opened \o item)
             ELSE <<item>> \o CsvLoop(Tail(fields), <<>>)

\* labels of the items that hold "="
RECURSIVE CsvLabels(_)
CsvLabels(items) ==
    IF items = <<>> THEN EmptyLabels
    ELSE LET before == CsvLabels(SubSeq(items, 1, Len(items) - 1))
             label == items[Len(items)]
         IN  IF Contains(label, Ch.eq)
             THEN LabelsSet(before, Split1(label, Ch.eq)[1], Split1(label, Ch.eq)[2])
             ELSE before

\* _parse_header_as_csv_row(row): (content_length, content_type, labels), or
\* Fail for the ValueError of int() and the IndexError of items[1]
_parse_header_as_csv_row(row) ==
    LET items == CsvLoop(SplitAll(row, Ch.comma), <<>>)
        content_length == IF items = <<>> THEN [ok |-> FALSE, val |-> 0] ELSE ParseInt(items[1])
    IN  IF Len(items) < 2 \/ ~content_length.ok THEN Fail
        ELSE Ok([content_length |-> content_length.val,
                 content_type |-> items[2],
                 labels |-> CsvLabels(Drop(items, 2))])


(* Batch protocol v2, the decoder of batch/v2.py ---------------------------*)

\* urllib.parse.unquote before decoding: an escape with two hex digits
\* becomes its byte, any other "%" stays
RECURSIVE UnquoteBytes(_)
UnquoteBytes(raw) ==
    IF raw = <<>> THEN <<>>
    ELSE IF raw[1] = Ch.pct /\ Len(raw) >= 3 /\ IsHexCh(raw[2]) /\ IsHexCh(raw[3])
         THEN <<16 * HexVal(raw[2]) + HexVal(raw[3])>> \o UnquoteBytes(Drop(raw, 3))
         ELSE <<raw[1]>> \o UnquoteBytes(Tail(raw))

\* bytes.decode("utf-8", "replace") for code points below 0x800: a byte
\* that is not UTF-8 becomes U+FFFD
RECURSIVE Utf8DecodeReplace(_)
Utf8DecodeReplace(b) ==
    IF b = <<>> THEN <<>>
    ELSE IF b[1] < 128 THEN <<b[1]>> \o Utf8DecodeReplace(Tail(b))
    ELSE IF b[1] \in 194..223 /\ Len(b) >= 2 /\ b[2] \in 128..191
         THEN <<(b[1] - 192) * 64 + (b[2] - 128)>> \o Utf8DecodeReplace(Drop(b, 2))
    ELSE <<65533>> \o Utf8DecodeReplace(Tail(b))

RECURSIVE EncodedListLoop(_)
EncodedListLoop(parts) ==
    IF parts = <<>> THEN <<>>
    ELSE LET trimmed == Strip(parts[1])
         IN  (IF trimmed = <<>> THEN <<>> ELSE <<Utf8DecodeReplace(UnquoteBytes(trimmed))>>)
             \o EncodedListLoop(Tail(parts))

_parse_encoded_list(raw) == EncodedListLoop(SplitAll(raw, Ch.comma))

\* _map_key of v2._parse_label_delta_ops
MapKeyV2(key, label_names) ==
    IF label_names.has /\ IsDigit(key) /\ DigitsVal(key) < Len(label_names.val)
    THEN label_names.val[DigitsVal(key) + 1]
    ELSE key

\* the while loop of v2._parse_label_delta_ops over raw[pos:]
RECURSIVE OpsLoopV2(_, _)
OpsLoopV2(rest, label_names) ==
    LET r == LStrip(rest)
    IN  IF r = <<>> \/ ~Contains(r, Ch.eq) THEN <<>>
        ELSE LET key == MapKeyV2(Strip(Split1(r, Ch.eq)[1]), label_names)
                 after == Split1(r, Ch.eq)[2]
                 quoted == after # <<>> /\ after[1] = Ch.quote
                 inner == Tail(after)
                 segment == Strip(IF Contains(after, Ch.comma) THEN Split1(after, Ch.comma)[1]
                                  ELSE after)
                 value == IF quoted THEN Split1(inner, Ch.quote)[1]
                          ELSE IF segment # <<>> THEN segment ELSE Removed
                 next == IF quoted THEN Split1(inner, Ch.quote)[2]
                         ELSE IF Contains(after, Ch.comma) THEN Split1(after, Ch.comma)[2]
                         ELSE <<>>
             IN  IF quoted /\ ~Contains(inner, Ch.quote) THEN <<>>
                 ELSE <<<<key, value>>>>
                      \o OpsLoopV2(IF quoted /\ next # <<>> /\ next[1] = Ch.comma
                                   THEN Tail(next) ELSE next, label_names)

v2_parse_label_delta_ops(raw, label_names) == OpsLoopV2(raw, label_names)

v2_apply_label_delta(raw, base, label_names) ==
    ApplyOps(base, v2_parse_label_delta_ops(raw, label_names))

\* _parse_record_header_v2(raw, previous, label_names); Fail is None
_parse_record_header_v2(raw, previous, label_names) ==
    LET has_rest == Contains(raw, Ch.comma)
        length_str == Strip(IF has_rest THEN Split1(raw, Ch.comma)[1] ELSE raw)
        content_length == ParseInt(length_str)
        rest == IF has_rest THEN Split1(raw, Ch.comma)[2] ELSE <<>>
        has_labels == Contains(rest, Ch.comma)
        content_type_raw == Strip(IF has_labels THEN Split1(rest, Ch.comma)[1] ELSE rest)
        content_type == IF content_type_raw # <<>> THEN content_type_raw
                        ELSE IF previous.has THEN previous.content_type
                        ELSE OCTET_STREAM
        labels == IF has_labels
                  THEN v2_apply_label_delta(Split1(rest, Ch.comma)[2], previous.labels,
                                            label_names)
                  ELSE previous.labels
    IN  IF length_str = <<>> \/ ~content_length.ok THEN Fail
        ELSE Ok([content_length |-> content_length.val,
                 content_type |-> content_type,
                 labels |-> labels])

\* whether the loop over resp.headers keeps the header of this name
KeepsHeaderV2(name) ==
    LET low == Lower(name)
        suffix == Drop(low, Len(HEADER_PREFIX))
    IN  /\ StartsWith(low, HEADER_PREFIX)
        /\ ~StartsWith(low, ERROR_HEADER_PREFIX)
        /\ Contains(suffix, Ch.dash)
        /\ IsDigit(RSplit1(suffix, Ch.dash)[1])
        /\ ParseInt(RSplit1(suffix, Ch.dash)[2]).ok

\* parsed_headers of v2.parse_batched_records_v2 after its sort
RECURSIVE ParsedHeadersV2(_)
ParsedHeadersV2(headers) ==
    IF headers = <<>> THEN <<>>
    ELSE LET last == headers[Len(headers)]
             before == ParsedHeadersV2(SubSeq(headers, 1, Len(headers) - 1))
             suffix == Drop(Lower(last[1]), Len(HEADER_PREFIX))
         IN  IF KeepsHeaderV2(last[1])
             THEN InsertParsed(before, <<ParseInt(RSplit1(suffix, Ch.dash)[1]).val,
                                         ParseInt(RSplit1(suffix, Ch.dash)[2]).val, last[2]>>)
             ELSE before

(***************************************************************************)
(* State.                                                                  *)
(*   codec:  a RecordBatch (_records, _total_size, _last_access), the      *)
(*           headers make_headers_v2 built from it and what                *)
(*           _parse_batched_headers made of those headers; adds and added  *)
(*           count the calls of add since the batch was made or cleared    *)
(*           and the bytes of data they passed.                            *)
(***************************************************************************)
VARIABLES _records, _total_size, _last_access, adds, added, wire, parsed, phase

codecVars == <<_records, _total_size, _last_access, adds, added, wire, parsed, phase>>

(***************************************************************************)
(* The record stream demuxer: parse_batched_records of one response.       *)
(*   impl      which decoder reads the response: parse_batched_records_v2  *)
(*             of batch_v2.py, parse_batched_records_v1 of batch_v1.py, or *)
(*             parse_batched_records of record.py (v2.py, else v1.py)      *)
(*   page      the records the server put in the response, in body order   *)
(*   resp      the response: method, headers, body, url path               *)
(*   resp_pos  bytes of resp.content that were read                        *)
(*   resp_body resp._body, the payload resp.read() keeps                   *)
(*   gen       the async generator: where it stands (pc), the record       *)
(*             headers it parsed, records_count, and chunks and count of   *)
(*             the read_response it is in                                  *)
(*   yielded   the records the generator has yielded, with their buffers   *)
(*   got       what the caller read from each yielded record               *)
(***************************************************************************)
VARIABLES impl, page, resp, resp_pos, resp_body, gen, yielded, got

demuxVars == <<impl, page, resp, resp_pos, resp_body, gen, yielded, got>>

(***************************************************************************)
(* The query cursor: Bucket.query and Bucket.subscribe.                    *)
(*   mode     "query" (one-shot) or "subscribe" (continuous)               *)
(*   cursor   the async generator of the query: where it stands, its local *)
(*            last, the method of its fetches and whether it reads the     *)
(*            multi-entry API (use_v2)                                     *)
(*   out      the records the cursor has handed to the caller              *)
(*   fetches  the fetch requests the cursor has issued                     *)
(*   status   the HTTP status of the last response, 0 before any response  *)
(***************************************************************************)
VARIABLES mode, cursor, out, fetches, status

cursorVars == <<mode, cursor, out, fetches, status>>

(***************************************************************************)
(* A batch operation of a bucket: write_batch, update_batch, remove_batch. *)
(*   op   the call: where it stands (pc), its arguments (kind,             *)
(*        default_entry, batch), the function that reads the response      *)
(*        (parser), the api version the client knows (supports_v2), the    *)
(*        items, the protocol and the record headers _make_headers         *)
(*        produced, the requests sent, the status and the headers of the   *)
(*        response, the records the server refused (failed), and the       *)
(*        error map returned or the exception raised                       *)
(***************************************************************************)
VARIABLES op

opVars == <<op>>

(***************************************************************************)
(* The v1 header-value parser on its own:                                  *)
(*   csv_row  the header value handed to _parse_header_as_csv_row and      *)
(*            what the writer put into it (size, content type, labels)     *)
(*   csv      the position of the call and what it returned                *)
(***************************************************************************)
VARIABLES csv_row, csv

rowVars == <<csv_row, csv>>

vars == <<codecVars, demuxVars, cursorVars, opVars, rowVars>>

\* what a call has before _make_headers returns and before the response
NoHeaders == [ok |-> FALSE, content_length |-> 0, headers |-> <<>>]

\* no path was resolved
NoPath == [api |-> "none", entry |-> <<-1>>, operation |-> "none"]

OpIdle ==
    op = [pc |-> "idle", kind |-> "none", parser |-> "none", default_entry |-> <<-1>>,
          batch |-> <<>>, supports_v2 |-> FALSE, items |-> <<>>, protocol |-> "none",
          record_headers |-> NoHeaders, path |-> NoPath, requests |-> 0, status |-> 0,
          failed |-> {}, response |-> <<>>, errors |-> <<>>, raised |-> "none",
          body |-> <<>>]

(* Each part of the model is explored on its own: the other parts stay idle *)

\* no header value was handed to the parser
NoRow == [text |-> <<>>, size |-> 0, content_type |-> <<>>, written |-> <<>>]

RowIdle == csv_row = NoRow /\ csv = [pc |-> "idle", result |-> Fail]

CodecIdle ==
    /\ _records = <<>>
    /\ _total_size = 0
    /\ _last_access = 0
    /\ adds = 0
    /\ added = 0
    /\ wire = [ok |-> FALSE, content_length |-> 0, headers |-> <<>>]
    /\ parsed = [ok |-> FALSE, val |-> <<>>]
    /\ phase = "idle"

\* no response is held
NoResponse ==
    /\ page = <<>>
    /\ resp = [method |-> "GET", headers |-> <<>>, body |-> <<>>, url_path |-> <<>>]
    /\ resp_pos = 0
    /\ resp_body = <<-1>>
    /\ gen = [pc |-> "idle", decoded |-> [ok |-> FALSE, items |-> <<>>, last |-> FALSE],
              records_count |-> 0, chunks |-> <<>>, count |-> 0]
    /\ yielded = <<>>
    /\ got = <<>>

DemuxIdle == impl = "none" /\ NoResponse

CursorIdle ==
    /\ mode = "none"
    /\ cursor = [pc |-> "idle", last |-> FALSE, method |-> "GET", use_v2 |-> FALSE,
                 closed |-> FALSE]
    /\ out = <<>>
    /\ fetches = 0
    /\ status = 0

(* Bounds ------------------------------------------------------------------*)

\* calls of RecordBatch.add before the batch is encoded
MaxAdds == 2

(* Inputs of the codec ------------------------------------------------------*)

\* "b/" needs percent-encoding, "%41" holds the escape character itself
EntryNames == {<<98, 47>>, <<37, 52, 49>>}

Timestamps == {3, 12}

\* "t/x"
TextType == <<116, 47, 120>>

\* content_type=None, or a content type
ContentTypes == {<<>>, TextType}

\* label maps: none, {"k": "v"}, {"k": "a,b", "j": "="}, {"j": "v=w"}
LabelMaps ==
    { EmptyLabels,
      [k \in {<<107>>} |-> <<118>>],
      [k \in {<<107>>, <<106>>} |-> IF k = <<107>> THEN <<97, 44, 98>> ELSE <<61>>],
      [k \in {<<106>>} |-> <<118, 61, 119>>] }

\* payload sizes: len(data)
Sizes == {0, 12}

\* batch.add(None, 3, data, content_type="t/x"): a record without an entry
UnnamedRecord == [entry |-> NoEntry, timestamp |-> 3, content_type |-> TextType,
                  labels |-> EmptyLabels, size |-> 12]

\* what one call of RecordBatch.add passes
AddArgs == [entry : EntryNames, timestamp : Timestamps, content_type : ContentTypes,
            labels : LabelMaps, size : Sizes] \cup {UnnamedRecord}

NotYet == [ok |-> FALSE, content_length |-> 0, headers |-> <<>>]

CodecInit ==
    /\ _records = <<>>
    /\ _total_size = 0
    /\ _last_access = 0
    /\ adds = 0
    /\ added = 0
    /\ wire = NotYet
    /\ parsed = Fail
    /\ phase = "building"
    /\ DemuxIdle
    /\ CursorIdle
    /\ OpIdle
    /\ RowIdle

\* time.time() at a call of add: seconds since the epoch, a positive number
Clock == {1}

\* BaseBatch._add: the Record it stores
NewRecord(a) ==
    [entry |-> a.entry, timestamp |-> a.timestamp, size |-> a.size,
     content_type |-> IF a.content_type = <<>> THEN OCTET_STREAM ELSE a.content_type,
     labels |-> a.labels]

\* RecordBatch.add(entry, timestamp, data, content_type=, labels=)
Add(a) ==
    /\ phase = "building"
    /\ adds < MaxAdds
    /\ adds' = adds + 1
    /\ added' = added + a.size
    /\ _total_size' = _total_size + NewRecord(a).size
    /\ _last_access' \in Clock
    /\ _records' = BatchAdd(_records, NewRecord(a))
    /\ UNCHANGED <<wire, parsed, phase, demuxVars, cursorVars, opVars, rowVars>>

\* RecordBatch.clear()
Clear ==
    /\ phase = "building"
    /\ _records' = <<>>
    /\ _total_size' = 0
    /\ _last_access' = 0
    /\ adds' = 0
    /\ added' = 0
    /\ UNCHANGED <<wire, parsed, phase, demuxVars, cursorVars, opVars, rowVars>>

\* make_headers_v2(batch)
Encode ==
    /\ phase = "building"
    /\ wire' = make_headers_v2(_records)
    /\ phase' = "encoded"
    /\ UNCHANGED <<_records, _total_size, _last_access, adds, added, parsed, demuxVars,
                   cursorVars, opVars, rowVars>>

\* "x-reduct-error-0-3": "409,x", a header under the error prefix
ErrorHeader == <<ERROR_HEADER_PREFIX \o <<48, 45, 51>>, <<52, 48, 57, 44, 120>>>>

\* "x-reduct-0-+1": "0,", a header whose last part is a number with a sign
SignedHeader == <<HEADER_PREFIX \o <<48, 45, 43, 49>>, <<48, 44>>>>

\* headers a response may hold besides those of the records
ExtraHeaders == {<<ErrorHeader>>, <<ErrorHeader, SignedHeader>>}

Reversed(s) == [i \in 1..Len(s) |-> s[Len(s) + 1 - i]]

\* resp.headers.items(): the headers that were built come back in another
\* order than they were sent in, with other headers among them
Receive(extra) ==
    /\ phase = "encoded"
    /\ wire.ok
    /\ wire' = [wire EXCEPT !.headers = Reversed(extra \o wire.headers)]
    /\ phase' = "received"
    /\ UNCHANGED <<_records, _total_size, _last_access, adds, added, parsed, demuxVars,
                   cursorVars, opVars, rowVars>>

\* _parse_batched_headers(headers) on the headers that were built
Decode ==
    /\ phase \in {"encoded", "received"}
    /\ wire.ok
    /\ parsed' = _parse_batched_headers(wire.headers)
    /\ phase' = "decoded"
    /\ UNCHANGED <<_records, _total_size, _last_access, adds, added, wire, demuxVars,
                   cursorVars, opVars, rowVars>>

NextCodec ==
    \/ \E a \in AddArgs : Add(a)
    \/ Clear
    \/ Encode
    \/ \E extra \in ExtraHeaders : Receive(extra)
    \/ Decode

SpecCodec == CodecInit /\ [][NextCodec]_vars

(* C1 ----------------------------------------------------------------------*)

\* what decoding is to give back for the batch: one EntryRecordHeader per
\* record, in the order of the batch items
ExpectedHeaders ==
    LET items == BatchItems(_records)
    IN  [i \in 1..Len(items) |->
           [entry |-> items[i].entry, timestamp |-> items[i].timestamp,
            header |-> [content_length |-> items[i].size,
                        content_type |-> items[i].content_type,
                        labels |-> items[i].labels]]]

\* C1: for every v2 batch, parsing the headers make_headers_v2 produced
\* yields, record by record, the (entry, timestamp, content type, labels,
\* size) of the records of the batch
C1_RoundTrip ==
    (phase = "decoded" /\ _records # <<>>) => (parsed.ok /\ parsed.val = ExpectedHeaders)

(* The record stream demuxer -------------------------------------------------*)

CHUNK_SIZE == 16000

RECURSIVE Flatten(_)
Flatten(parts) == IF parts = <<>> THEN <<>> ELSE parts[1] \o Flatten(Tail(parts))

\* the sum of f[1..n]
RECURSIVE SumTo(_, _)
SumTo(f, n) == IF n = 0 THEN 0 ELSE SumTo(f, n - 1) + f[n]

(* What each decoder makes of the headers: one item per record header; an *)
(* item with skip is passed over, an item with bad raises when the loop   *)
(* reaches it.                                                            *)

ItemOf(entry, timestamp, header) ==
    [skip |-> FALSE, bad |-> FALSE, entry |-> entry, timestamp |-> timestamp,
     content_length |-> header.content_length, content_type |-> header.content_type,
     labels |-> header.labels]

NoItem == [entry |-> <<>>, timestamp |-> 0, content_length |-> 0, content_type |-> <<>>,
           labels |-> EmptyLabels]

SkipItem == [skip |-> TRUE, bad |-> FALSE] @@ NoItem

BadItem == [skip |-> FALSE, bad |-> TRUE] @@ NoItem

\* {name.lower(): value for name, value in resp.headers.items()}
LowerNames(headers) == [i \in 1..Len(headers) |-> <<Lower(headers[i][1]), headers[i][2]>>]

\* resp.headers.get("x-reduct-last", "false") == "true"
LastMarker(headers) == GetHeader(headers, LAST_HEADER, FalseStr) = TrueStr

\* the items of the list _parse_batched_headers returned, none when it raised
ItemsBatchV2(parsed_headers, last) ==
    IF ~parsed_headers.ok THEN [ok |-> FALSE, items |-> <<>>, last |-> FALSE]
    ELSE [ok |-> TRUE,
          items |-> [i \in 1..Len(parsed_headers.val) |->
                       ItemOf(parsed_headers.val[i].entry, parsed_headers.val[i].timestamp,
                              parsed_headers.val[i].header)],
          last |-> last]

\* batch_v2.parse_batched_records_v2 up to its loop
HeadersBatchV2(r) ==
    ItemsBatchV2(_parse_batched_headers(LowerNames(r.headers)), LastMarker(r.headers))

\* the headers parse_batched_records_v1 loops over, each parsed as its loop
\* parses it
\* the record of a time header, from int(name[14:]) and the parsed row
ItemV1(entry, timestamp, row) ==
    IF ~timestamp.ok \/ ~row.ok THEN BadItem ELSE ItemOf(entry, timestamp.val, row.val)

RECURSIVE TimeHeadersV1(_, _)
TimeHeadersV1(headers, entry) ==
    IF headers = <<>> THEN <<>>
    ELSE (IF ~StartsWith(Lower(headers[1][1]), TIME_PREFIX) THEN <<>>
          ELSE <<ItemV1(entry, ParseInt(Drop(headers[1][1], Len(TIME_PREFIX))),
                        _parse_header_as_csv_row(headers[1][2]))>>)
         \o TimeHeadersV1(Tail(headers), entry)

HeadersV1(r, entry) ==
    [ok |-> TRUE, items |-> TimeHeadersV1(r.headers, entry), last |-> LastMarker(r.headers)]

\* the loop of v2._iter_records over parsed_headers: last is last_header
\* one turn of the loop of v2._iter_records: the item of the header, and
\* last_header after it; header is what _parse_record_header_v2 returned
IterOneV2(entry_idx, delta, header, entries, start_ts, last) ==
    IF entry_idx >= Len(entries) \/ ~header.ok
    THEN [item |-> SkipItem, last |-> last]
    ELSE [item |-> ItemOf(entries[entry_idx + 1], start_ts + delta, header.val),
          last |-> [e \in (DOMAIN last) \cup {entry_idx} |->
                      IF e = entry_idx
                      THEN [has |-> TRUE, content_type |-> header.val.content_type,
                            labels |-> header.val.labels]
                      ELSE last[e]]]

RECURSIVE IterLoopV2(_, _, _, _, _)

\* the turns of the loop after the first
IterRestV2(one, parsed_headers, entries, start_ts, label_names) ==
    <<one.item>> \o IterLoopV2(Tail(parsed_headers), entries, start_ts, label_names, one.last)

\* the loop of v2._iter_records over parsed_headers: last is last_header
IterLoopV2(parsed_headers, entries, start_ts, label_names, last) ==
    IF parsed_headers = <<>> THEN <<>>
    ELSE IterRestV2(IterOneV2(parsed_headers[1][1], parsed_headers[1][2],
                              _parse_record_header_v2(parsed_headers[1][3],
                                  MetaOf(last, parsed_headers[1][1]), label_names),
                              entries, start_ts, last),
                    parsed_headers, entries, start_ts, label_names)

Absent == <<-1>>

\* label_names of v2.parse_batched_records_v2: None unless the header has text
LabelNamesV2(labels_raw) ==
    IF labels_raw # <<>> THEN [has |-> TRUE, val |-> _parse_encoded_list(labels_raw)]
    ELSE [has |-> FALSE, val |-> <<>>]

\* v2.parse_batched_records_v2 from the values of its headers on
ParseV2(entries_raw, start_ts_raw, start_ts, entries, label_names, parsed_headers, last_flag) ==
    IF \/ entries_raw = Absent \/ start_ts_raw = Absent
       \/ ~start_ts.ok \/ entries = <<>> \/ parsed_headers = <<>>
    THEN [ok |-> FALSE, items |-> <<>>, last |-> FALSE]
    ELSE [ok |-> TRUE,
          items |-> IterLoopV2(parsed_headers, entries, start_ts.val, label_names,
                               [e \in {} |-> NoMeta]),
          last |-> last_flag]

\* v2.parse_batched_records_v2(resp): ok is FALSE where it returns None
HeadersV2(r) ==
    ParseV2(GetHeader(r.headers, ENTRIES_HEADER, Absent),
            GetHeader(r.headers, START_TS_HEADER, Absent),
            ParseInt(GetHeader(r.headers, START_TS_HEADER, Absent)),
            _parse_encoded_list(GetHeader(r.headers, ENTRIES_HEADER, <<>>)),
            LabelNamesV2(GetHeader(r.headers, LABELS_HEADER, <<>>)),
            ParsedHeadersV2(r.headers),
            Lower(GetHeader(r.headers, LAST_HEADER, FalseStr)) = TrueStr)

\* parsed_v2 if it is not None, else the records of v1
OrElseV1(parsed_v2, r) == IF parsed_v2.ok THEN parsed_v2 ELSE HeadersV1(r, r.url_path)

\* record.parse_batched_records(resp): v2 when v2 takes the response, else v1
HeadersPkg(r) == OrElseV1(HeadersV2(r), r)

\* "a"
DefaultEntry == <<97>>

\* the record headers the decoder i iterates over for the response r
Decoded(i, r) ==
    IF i = "batch_v2" THEN HeadersBatchV2(r)
    ELSE IF i = "batch_v1" THEN HeadersV1(r, DefaultEntry)
    ELSE HeadersPkg(r)

(* Bounds ------------------------------------------------------------------*)

\* records in one page
MaxPage == 3

\* len(data) of the records of a page
PayloadSizes == {0, 2}

(* Responses ---------------------------------------------------------------*)

\* "b"
OtherEntry == <<98>>

\* pages of k records: timestamps rise with the position; the records are
\* of one entry, or the first of entry "a" and the others of entry "b"
PagesOf(k) ==
    { [i \in 1..k |-> [entry |-> IF i <= split THEN DefaultEntry ELSE OtherEntry,
                       timestamp |-> 10 + i, size |-> sizes[i],
                       content_type |-> OCTET_STREAM, labels |-> EmptyLabels]] :
        sizes \in [1..k -> PayloadSizes], split \in {1, k} }

Pages == UNION {PagesOf(k) : k \in 0..MaxPage}

RECURSIVE BatchOf(_)
BatchOf(records) ==
    IF records = <<>> THEN <<>>
    ELSE BatchAdd(BatchOf(SubSeq(records, 1, Len(records) - 1)), records[Len(records)])

\* values of the x-reduct-last header: absent, "true", "false", "True"
Markers == {Absent, TrueStr, FalseStr, <<84, 114, 117, 101>>}

\* "x-reduct-7-0": a record header whose entry index no entry has
StrayHeader == <<HEADER_PREFIX \o <<55, 45, 48>>, <<49, 44>>>>

\* "/b/q"
UrlPath == <<47, 98, 47, 113>>

\* the headers of a page as the server writes them
ServerHeaders(protocol, records, marker, stray) ==
    (IF protocol = "v2" THEN make_headers_v2(BatchOf(records)).headers
     ELSE make_headers_v1(BatchOf(records)).headers)
    \o (IF marker = Absent THEN <<>> ELSE <<<<LAST_HEADER, marker>>>>)
    \o (IF stray THEN <<StrayHeader>> ELSE <<>>)

PageSize(records) == SumTo([i \in 1..Len(records) |-> records[i].size], Len(records))

\* a GET response carries the payloads one after the other, a HEAD response
\* carries no body; the byte at offset p has the value p
ServerResponse(method, protocol, records, marker, stray) ==
    [method |-> method,
     headers |-> ServerHeaders(protocol, records, marker, stray),
     body |-> IF method = "GET" THEN [p \in 1..PageSize(records) |-> p] ELSE <<>>,
     url_path |-> UrlPath]

Impls == {"batch_v2", "batch_v1", "pkg"}

Protocols(i) == IF i = "batch_v2" THEN {"v2"} ELSE IF i = "batch_v1" THEN {"v1"} ELSE {"v1", "v2"}

NoBody == <<-1>>

GenStart == [pc |-> "start", decoded |-> [ok |-> FALSE, items |-> <<>>, last |-> FALSE],
             records_count |-> 0, chunks |-> <<>>, count |-> 0]

DemuxInit ==
    /\ CodecIdle
    /\ RowIdle
    /\ CursorIdle
    /\ OpIdle
    /\ impl \in Impls
    /\ page \in Pages
    /\ \E method \in {"GET", "HEAD"}, protocol \in Protocols(impl), marker \in Markers,
          stray \in BOOLEAN :
          /\ protocol = "v1" => (~stray /\ \A i \in 1..Len(page) : page[i].entry = DefaultEntry)
          /\ resp = ServerResponse(method, protocol, page, marker, stray)
    /\ resp_pos = 0
    /\ resp_body = NoBody
    /\ gen = GenStart
    /\ yielded = <<>>
    /\ got = <<>>

(* The generator -----------------------------------------------------------*)

\* a decoder that takes no response for a HEAD response
HeadIgnored(r) == FALSE

\* head = resp.method == "HEAD"
IsHead(r) == r.method = "HEAD"

\* a decoder that buffers every record
NoFinal(records_count, records_total) == FALSE

\* records_count == records_total: the record is the final one of the page
IsFinal(records_count, records_total) == records_count = records_total

\* the next item the loop does not pass over, 0 when there is none
NextItem(items, from) ==
    IF \E j \in (from + 1)..Len(items) : ~items[j].skip
    THEN CHOOSE j \in (from + 1)..Len(items) :
            ~items[j].skip /\ \A h \in (from + 1)..(j - 1) : items[h].skip
    ELSE 0

\* the Record the loop yields for an item
RecordOf(item, last, streamed, buffer) ==
    [entry |-> item.entry, timestamp |-> item.timestamp, size |-> item.content_length,
     last |-> last, content_type |-> item.content_type, labels |-> item.labels,
     streamed |-> streamed, buffer |-> buffer]

\* no call of read_all or read
NoCall == [call |-> "none", chunks |-> <<>>]

\* what the caller has of a record: the first call it made and the chunks it
\* returned, and the same of a call it made after that
Unread == [call |-> "none", chunks |-> <<>>, again |-> NoCall]

\* yield record: the generator is suspended until the caller asks again
Yield(decoded, record, index) ==
    /\ yielded' = Append(yielded, record)
    /\ got' = Append(got, Unread)
    /\ gen' = [pc |-> "suspended", decoded |-> decoded, records_count |-> index,
               chunks |-> <<>>, count |-> 0]

\* the generator is asked for its next record: it runs to its next yield, to
\* its first read of the body, to its end or to an error
\* the turn of the loop for the item at index, the end of the loop when
\* index is 0, and the error the decoder raises
GenTurn(decoded, index) ==
    IF ~decoded.ok \/ (index # 0 /\ decoded.items[index].bad)
    THEN /\ gen' = [gen EXCEPT !.pc = "error", !.decoded = decoded]
         /\ UNCHANGED <<yielded, got>>
    ELSE IF index = 0
    THEN /\ gen' = [gen EXCEPT !.pc = "done", !.decoded = decoded]
         /\ UNCHANGED <<yielded, got>>
    ELSE IF IsFinal(index, Len(decoded.items))
    THEN Yield(decoded, RecordOf(decoded.items[index], decoded.last, TRUE, <<>>), index)
    ELSE IF IsHead(resp) \/ decoded.items[index].content_length <= 0
    THEN Yield(decoded, RecordOf(decoded.items[index], FALSE, FALSE, <<>>), index)
    ELSE /\ gen' = [pc |-> "reading", decoded |-> decoded, records_count |-> index,
                    chunks |-> <<>>, count |-> 0]
         /\ UNCHANGED <<yielded, got>>

\* the generator runs over the record headers decoded to its next yield or
\* read
GenStep(decoded) ==
    /\ GenTurn(decoded, NextItem(decoded.items, gen.records_count))
    /\ UNCHANGED <<impl, page, resp, resp_pos, resp_body, codecVars, opVars, rowVars>>

\* async for record in parse_batched_records(resp), by a caller that holds
\* the response: the first turn parses the headers
GenNext ==
    /\ gen.pc \in {"start", "suspended"}
    /\ \E decoded \in {IF gen.pc = "start" THEN Decoded(impl, resp) ELSE gen.decoded} :
          GenStep(decoded)
    /\ UNCHANGED cursorVars

\* resp.content.read(n): some bytes, at most n, of those that are left; none
\* at the end of the body
StreamReads(n) ==
    IF resp_pos = Len(resp.body) THEN {0} ELSE 1..Min(n, Len(resp.body) - resp_pos)

\* empty chunks the model keeps in a buffer: the loop appends one at every
\* read at the end of the body, and the model starts counting them from one
\* again after this number
MaxEmptyReads == 2

\* the empty chunks of a buffer
EmptyChunks(chunks) == Cardinality({i \in DOMAIN chunks : chunks[i] = <<>>})

\* one turn of the loop of read_response, and the yield that follows the
\* loop when the record is complete
ReadStep ==
    /\ gen.pc = "reading"
    /\ LET item == gen.decoded.items[gen.records_count]
           n == Min(CHUNK_SIZE, item.content_length - gen.count)
       IN  \E k \in StreamReads(n) :
              LET chunk == SubSeq(resp.body, resp_pos + 1, resp_pos + k)
                  chunks == IF chunk = <<>> /\ EmptyChunks(gen.chunks) >= MaxEmptyReads
                            THEN Append(SelectSeq(gen.chunks, LAMBDA c : c # <<>>), chunk)
                            ELSE Append(gen.chunks, chunk)
                  count == gen.count + Len(chunk)
              IN  /\ resp_pos' = resp_pos + k
                  /\ IF count < item.content_length
                     THEN /\ gen' = [gen EXCEPT !.chunks = chunks, !.count = count]
                          /\ UNCHANGED <<yielded, got>>
                     ELSE Yield(gen.decoded, RecordOf(item, FALSE, FALSE, chunks),
                                gen.records_count)
    /\ UNCHANGED <<impl, page, resp, resp_body, codecVars, opVars, rowVars>>

ReadResponse == ReadStep /\ UNCHANGED cursorVars

(* The caller reads a record -----------------------------------------------*)

\* the chunks read(buffer, n) yields for one part of the buffer
RECURSIVE PartChunks(_, _)
PartChunks(part, m) ==
    IF part = <<>> THEN <<>>
    ELSE <<SubSeq(part, 1, m)>> \o PartChunks(Drop(part, m), Min(m, Len(part) - m))

\* the chunks read(buffer, n) yields until the buffer is empty
RECURSIVE read(_, _)
read(buffer, n) ==
    IF buffer = <<>> THEN <<>>
    ELSE PartChunks(buffer[1], Min(n, Len(buffer[1]))) \o read(Tail(buffer), n)

\* a read_all that returns the first chunk only
FirstChunk(buffer) == IF buffer = <<>> THEN <<>> ELSE buffer[1]

\* read_all(buffer)
read_all(buffer) == Flatten(buffer)

\* the ways a stream of len bytes comes in chunks of at most n bytes
RECURSIVE Splits(_, _)
Splits(len, n) ==
    IF len = 0 THEN {<<>>}
    ELSE UNION { {<<k>> \o rest : rest \in Splits(len - k, n)} : k \in 1..Min(n, len) }

\* the chunks of the body from offset from on, of the given sizes
RECURSIVE Cut(_, _, _)
Cut(body, from, sizes) ==
    IF sizes = <<>> THEN <<>>
    ELSE <<SubSeq(body, from + 1, from + sizes[1])>> \o Cut(body, from + sizes[1], Tail(sizes))

\* sizes the caller passes to record.read(n)
ChunkSizes == {1, 2}

\* the caller reads a record it has not read yet, or, when the records of
\* the page have all been yielded and read, for once a record again
MayRead(i) ==
    \/ got[i].call = "none"
    \/ /\ gen.pc \in {"done", "error"}
       /\ \A j \in DOMAIN got : got[j].call # "none" /\ got[j].again.call = "none"

\* what the caller has of the record after a call that returned chunks
Got(g, call, chunks) ==
    IF g.call = "none" THEN [g EXCEPT !.call = call, !.chunks = chunks]
    ELSE [g EXCEPT !.again = [call |-> call, chunks |-> chunks]]

\* await record.read_all()
ReadAll(i) ==
    /\ i \in 1..Len(yielded)
    /\ MayRead(i)
    /\ IF yielded[i].streamed
       THEN LET data == IF resp_body # NoBody THEN resp_body
                        ELSE SubSeq(resp.body, resp_pos + 1, Len(resp.body))
            IN  /\ got' = [got EXCEPT ![i] = Got(@, "read_all", <<data>>)]
                /\ resp_body' = data
                /\ resp_pos' = IF resp_body # NoBody THEN resp_pos ELSE Len(resp.body)
       ELSE /\ got' = [got EXCEPT ![i] = Got(@, "read_all", <<read_all(yielded[i].buffer)>>)]
            /\ UNCHANGED <<resp_body, resp_pos>>
    /\ UNCHANGED <<impl, page, resp, gen, yielded, codecVars, cursorVars, opVars, rowVars>>

\* async for chunk in record.read(n), to its end
ReadChunks(i, n) ==
    /\ i \in 1..Len(yielded)
    /\ MayRead(i)
    /\ IF yielded[i].streamed
       THEN \E sizes \in Splits(Len(resp.body) - resp_pos, n) :
               /\ got' = [got EXCEPT ![i] = Got(@, "read", Cut(resp.body, resp_pos, sizes))]
               /\ resp_pos' = Len(resp.body)
               /\ UNCHANGED yielded
       ELSE /\ got' = [got EXCEPT ![i] = Got(@, "read", read(yielded[i].buffer, n))]
            /\ yielded' = [yielded EXCEPT ![i].buffer = <<>>]
            /\ UNCHANGED resp_pos
    /\ UNCHANGED <<impl, page, resp, resp_body, gen, codecVars, cursorVars, opVars, rowVars>>

NextDemux ==
    \/ GenNext
    \/ ReadResponse
    \/ \E i \in DOMAIN yielded : ReadAll(i)
    \/ \E i \in DOMAIN yielded, n \in ChunkSizes : ReadChunks(i, n)

SpecDemux == DemuxInit /\ [][NextDemux]_vars

(* C2 ----------------------------------------------------------------------*)

\* the sum of the content lengths of the first n records of the page
SizeUpTo(n) == SumTo([j \in 1..Len(page) |-> page[j].size], n)

\* the payload of the i-th record of the page: its slice of the body
Slice(i) == SubSeq(resp.body, SizeUpTo(i - 1) + 1, SizeUpTo(i))

\* C2: whatever the order in which the caller reads the yielded records of
\* a GET page, with read_all or with a chunked read, each record returns
\* exactly its slice of the body: content_length bytes from the offset that
\* is the sum of the content lengths of the records before it
C2_AnyOrder ==
    resp.method = "GET" =>
        \A i \in DOMAIN got : got[i].call # "none" => Flatten(got[i].chunks) = Slice(i)

\* the third and the second record of a page were read, one in chunks and
\* one with read_all, and the first, still unread, holds two bytes
C2_Witness ==
    /\ resp.method = "GET"
    /\ Len(page) = 3 /\ Len(got) = 3
    /\ \A i \in 1..3 : page[i].size = 2
    /\ got[3].call = "read" /\ got[2].call = "read_all" /\ got[1].call = "none"
    /\ Len(yielded[1].buffer) = 2

(* C3 ----------------------------------------------------------------------*)

\* the response holds one record header per record of the page
WellFormed(decoded) == decoded.ok /\ Len(decoded.items) = Len(page)

\* C3: in a GET page of k records, the step that yields the i-th record,
\* i < k, has read content_length(i) bytes into its buffer and leaves the
\* body read up to the sum of the content lengths of records 1..i; the step
\* that yields the k-th record leaves the body read up to the sum over
\* records 1..k-1 and the record has no buffer
C3_YieldStep ==
    (resp.method = "GET" /\ WellFormed(gen'.decoded) /\ Len(yielded') = Len(yielded) + 1) =>
        LET i == Len(yielded')
        IN  IF i < Len(page)
            THEN /\ ~yielded'[i].streamed
                 /\ Len(Flatten(yielded'[i].buffer)) = page[i].size
                 /\ resp_pos' = SizeUpTo(i)
            ELSE /\ yielded'[i].streamed
                 /\ yielded'[i].buffer = <<>>
                 /\ resp_pos' = SizeUpTo(i - 1)

C5_HeadNoPayload ==
    resp.method = "HEAD" =>
        /\ gen.pc # "reading"
        /\ resp_pos = 0
        /\ \A i \in DOMAIN yielded :
              /\ yielded[i].size = page[i].size
              /\ yielded[i].buffer = <<>>
              /\ got[i].call = "read_all" => got[i].chunks = <<<<>>>>
              /\ got[i].call = "read" => got[i].chunks = <<>>

\* a HEAD page of three records that advertise two bytes each: all were
\* yielded, the first was read with read_all and the others in chunks
C5_Witness ==
    /\ resp.method = "HEAD"
    /\ Len(page) = 3 /\ Len(yielded) = 3
    /\ \A i \in 1..3 : yielded[i].size = 2
    /\ got[1].call = "read_all" /\ got[2].call = "read" /\ got[3].call = "read"

(* C4 ----------------------------------------------------------------------*)

\* C4: in every decoded page, v1 or v2, a record that is not the final one
\* of the page has last = false, and the final record has last = true
\* exactly when the response carries x-reduct-last with the value "true"
C4_LastFlag ==
    \A i \in DOMAIN yielded :
        IF i < Len(page) THEN ~yielded[i].last
        ELSE yielded[i].last <=> (GetHeader(resp.headers, LAST_HEADER, Absent) = TrueStr)

(***************************************************************************)
(* The query cursor.                                                       *)
(***************************************************************************)

\* fetch requests of one cursor
MaxFetches == 3

\* numbers of records in the pages the server answers a fetch with
QueryPageLens == {1, 2}

\* a page of k records of one byte each
QueryPage(k) ==
    [i \in 1..k |-> [entry |-> DefaultEntry, timestamp |-> 10 + i, size |-> 1,
                     content_type |-> OCTET_STREAM, labels |-> EmptyLabels]]

\* what the server answers a request with: a status and, with 200, a page
\* and the value of x-reduct-last
Answers ==
    [status : {204, 404, 599}, page : {<<>>}, marker : {Absent}]
    \cup [status : {200}, page : {QueryPage(k) : k \in QueryPageLens},
          marker : {Absent, TrueStr}]

\* the response object of an answer
AnswerResponse(a, method, protocol) ==
    IF a.status = 200 THEN ServerResponse(method, protocol, a.page, a.marker, FALSE)
    ELSE [method |-> method, headers |-> <<>>, body |-> <<>>, url_path |-> UrlPath]

\* a client that takes every response
AnyStatus(s) == TRUE

\* response.ok of HttpClient._request; 599 stands for ClientConnectorError,
\* which _request raises as ReductError(599)
ResponseOk(s) == s < 400

\* resp.status == 204
NoContent(s) == s = 204

\* a one-shot cursor that fetches after every page
AlwaysFetch(last) == TRUE

\* while not last
ContinueQuery(last) == ~last

\* a cursor that sleeps in either mode
AlwaysSleep(m) == "sleep"

\* a cursor that returns in either mode
AlwaysDone(m) == "done"

\* after an empty page: query returns, subscribe sleeps for poll_interval
AfterNoContent(m) == IF m = "query" THEN "done" ELSE "sleep"

\* Bucket.query(entry_name, head=) or Bucket.subscribe(entry_name, head=)
\* was called and nothing was requested yet
CursorInit ==
    /\ CodecIdle
    /\ RowIdle
    /\ OpIdle
    /\ impl \in Impls
    /\ NoResponse
    /\ mode \in {"query", "subscribe"}
    /\ \E method \in {"GET", "HEAD"}, protocol \in Protocols(impl) :
          cursor = [pc |-> "open", last |-> FALSE, method |-> method,
                    use_v2 |-> (protocol = "v2"), closed |-> FALSE]
    /\ out = <<>>
    /\ fetches = 0
    /\ status = 0

\* query_id = await self._query_post(...): the POST is answered with a query
\* id or with an error
Open ==
    /\ cursor.pc = "open"
    /\ \E s \in {200, 404, 599} :
          /\ status' = s
          /\ cursor' = [cursor EXCEPT !.pc = IF ResponseOk(s) THEN "fetch" ELSE "error"]
    /\ UNCHANGED <<mode, out, fetches, demuxVars, codecVars, opVars, rowVars>>

\* async with self._http.request(method, ...) as resp: one fetch and what
\* the loop does with its status; with a page, parse_batched_records(resp)
\* is entered and has the headers parsed
Fetch ==
    /\ cursor.pc = "fetch"
    /\ fetches < MaxFetches
    /\ fetches' = fetches + 1
    /\ \E a \in Answers :
          /\ status' = a.status
          /\ IF ~ResponseOk(a.status)
             THEN /\ cursor' = [cursor EXCEPT !.pc = "error"]
                  /\ UNCHANGED demuxVars
             ELSE IF NoContent(a.status)
             THEN /\ cursor' = [cursor EXCEPT !.pc = AfterNoContent(mode)]
                  /\ UNCHANGED demuxVars
             ELSE /\ cursor' = [cursor EXCEPT !.pc = "page"]
                  /\ page' = a.page
                  /\ \E r \in {AnswerResponse(a, cursor.method,
                                               IF cursor.use_v2 THEN "v2" ELSE "v1")} :
                        /\ resp' = r
                        /\ gen' = [GenStart EXCEPT !.pc = "parsed", !.decoded = Decoded(impl, r)]
                  /\ resp_pos' = 0
                  /\ resp_body' = NoBody
                  /\ yielded' = <<>>
                  /\ got' = <<>>
                  /\ UNCHANGED impl
    /\ UNCHANGED <<mode, out, codecVars, opVars, rowVars>>

\* a loop that leaves the page for the next fetch as soon as it has yielded
\* a record
PrefetchAfterDecoder ==
    IF gen'.pc = "suspended"
    THEN LET record == yielded'[Len(yielded')]
         IN  /\ out' = Append(out, [timestamp |-> record.timestamp, last |-> record.last,
                                    fetch |-> fetches])
             /\ cursor' = [cursor EXCEPT !.pc = "fetch"]
    ELSE UNCHANGED <<out, cursor>>

\* what the loop over parse_batched_records(resp) does after a step of the
\* decoder: it yields the record the decoder yielded (query: last =
\* record.last), leaves the response when the decoder is exhausted (query:
\* while not last), or raises what the decoder raised
AfterDecoder ==
    IF gen'.pc = "suspended"
    THEN LET record == yielded'[Len(yielded')]
         IN  /\ out' = Append(out, [timestamp |-> record.timestamp, last |-> record.last,
                                    fetch |-> fetches])
             /\ cursor' = [cursor EXCEPT !.last = IF mode = "query" THEN record.last ELSE @]
    ELSE IF gen'.pc = "done"
    THEN /\ out' = out
         /\ cursor' = [cursor EXCEPT !.pc = IF mode = "query" /\ ~ContinueQuery(cursor.last)
                                            THEN "done" ELSE "fetch"]
    ELSE IF gen'.pc = "error"
    THEN /\ out' = out
         /\ cursor' = [cursor EXCEPT !.pc = "error"]
    ELSE UNCHANGED <<out, cursor>>

\* the caller asks the cursor for the next record while a page is open
PageNext ==
    /\ cursor.pc = "page"
    /\ gen.pc \in {"parsed", "suspended"}
    /\ GenStep(gen.decoded)
    /\ AfterDecoder
    /\ UNCHANGED <<mode, fetches, status>>

\* the decoder reads the body of the page for a record it buffers
PageRead ==
    /\ cursor.pc = "page"
    /\ ReadStep
    /\ AfterDecoder
    /\ UNCHANGED <<mode, fetches, status>>

\* await asyncio.sleep(poll_interval) is over: continue
Wake ==
    /\ cursor.pc = "sleep"
    /\ cursor' = [cursor EXCEPT !.pc = "fetch"]
    /\ UNCHANGED <<mode, out, fetches, status, demuxVars, codecVars, opVars, rowVars>>

\* a generator that takes the close for the end of the page
RefetchOnClose(m) == "fetch"

\* GeneratorExit at the yield: neither loop catches it, the response is
\* left and the generator is over
AfterClose(m) == "stopped"

\* the caller leaves its loop over the cursor at a record it was handed: the
\* generator is closed where it is suspended
Stop ==
    /\ cursor.pc = "page"
    /\ gen.pc = "suspended"
    /\ cursor' = [cursor EXCEPT !.pc = AfterClose(mode), !.closed = TRUE]
    /\ UNCHANGED <<mode, out, fetches, status, demuxVars, codecVars, opVars, rowVars>>

NextCursor ==
    \/ Open
    \/ Fetch
    \/ PageNext
    \/ PageRead
    \/ Wake
    \/ Stop

SpecCursor == CursorInit /\ [][NextCursor]_vars

\* The caller that keeps iterating is handed every record of the page it is
\* in and the event loop completes every read of the body the decoder
\* awaits; the caller is free to stop at any record, and nothing is assumed
\* of the requests
SpecCursorFair ==
    /\ SpecCursor
    /\ WF_vars(PageNext)
    /\ WF_vars(PageRead)

\* the step is a fetch: a request was issued and answered
Fetched == fetches' = fetches + 1

\* the step exhausts the page: the decoder has no more records
PageEnds == cursor.pc = "page" /\ gen.pc # "done" /\ gen'.pc = "done"

(* C6 ----------------------------------------------------------------------*)

C6_Step ==
    mode = "query" =>
        /\ (Fetched /\ status' = 204) => (cursor'.pc = "done" /\ out' = out)
        /\ (Fetched /\ status' = 204 /\ fetches = 0) => out' = <<>>
        /\ cursor.pc = "done" => (out' = out /\ fetches' = fetches /\ cursor'.pc = "done")

\* C6: in a one-shot query a fetch answered with 204 ends the iteration
\* without an error and without a record; once the iteration has ended no
\* record is yielded and no fetch is issued; a first fetch answered with
\* 204 leaves the query with zero records
C6_NoContentEnds == [][C6_Step]_vars

\* a one-shot query ended by the 204 of its first fetch
C6_Witness ==
    /\ mode = "query" /\ cursor.pc = "done"
    /\ status = 204 /\ fetches = 1 /\ out = <<>>

(* C7 ----------------------------------------------------------------------*)

C7_Step ==
    mode = "query" =>
        /\ (PageEnds /\ yielded # <<>>) =>
              (cursor'.pc = IF yielded[Len(yielded)].last THEN "done" ELSE "fetch")
        /\ Fetched => cursor.pc = "fetch"
        /\ cursor.pc = "done" => (fetches' = fetches /\ cursor'.pc = "done")

\* the server has answered a fetch with 204 or with a page that carries the
\* end-of-query marker
ServedEnd ==
    /\ mode = "query" /\ fetches > 0
    /\ \/ status = 204
       \/ cursor.pc = "page" /\ LastMarker(resp.headers)

\* C7: in a one-shot query, when a page is exhausted the cursor goes on to
\* fetch exactly when the final record of the page had last = false, and
\* ends otherwise, after which it never fetches; and once the server has
\* answered with 204 or with a page whose final record is flagged last, the
\* iteration ends
C7_FetchUntilLast ==
    /\ [][C7_Step]_vars
    /\ ServedEnd ~> (cursor.pc \in {"done", "stopped"})

\* a one-shot query that fetched a second page after a page without the
\* marker and ended at the marker of the second
C7_Witness ==
    /\ mode = "query" /\ cursor.pc = "done"
    /\ status = 200 /\ fetches = 2
    /\ Len(out) = 4 /\ ~out[2].last /\ out[4].last

(* C8 ----------------------------------------------------------------------*)

C8_Step ==
    mode = "subscribe" =>
        /\ (Fetched /\ status' = 204) => cursor'.pc = "sleep"
        /\ cursor.pc = "sleep" => (cursor'.pc = "fetch" /\ fetches' = fetches)
        /\ PageEnds => cursor'.pc = "fetch"
        /\ (cursor'.pc = "sleep" /\ cursor.pc # "sleep") => (Fetched /\ status' = 204)
        /\ cursor'.pc # "done"
        /\ (cursor'.pc = "error" /\ cursor.pc # "error") => status' >= 400
        /\ cursor.pc = "fetch" => cursor'.pc \in {"page", "sleep", "error"}

\* C8: a subscribe cursor never returns: a fetch answered with 204 is
\* followed by the sleep and the sleep by the next fetch, an exhausted page
\* is followed by the next fetch without a sleep, the sleep follows a 204
\* only, and the iteration ends only by a failed request or by the caller
C8_NeverEnds == [][C8_Step]_vars

\* a subscribe cursor that yielded a page, slept after a 204, and is about
\* to fetch again
C8_Witness ==
    /\ mode = "subscribe" /\ cursor.pc = "fetch"
    /\ status = 204 /\ fetches = 2 /\ Len(out) = 2

(* C9 ----------------------------------------------------------------------*)

\* C9: whatever the server answers, no record a subscribe cursor yields
\* has last = true
C9_NeverLast ==
    mode = "subscribe" => \A i \in DOMAIN out : ~out[i].last

(* C10 ---------------------------------------------------------------------*)

\* the step is the answer to the open-query request
Opened == cursor.pc = "open" /\ cursor'.pc # "open"

C10_Step ==
    /\ ((Opened \/ Fetched) /\ status' >= 400) => (cursor'.pc = "error" /\ out' = out)
    /\ cursor.pc = "error" => (cursor' = cursor /\ out' = out /\ fetches' = fetches)

Requests == fetches + (IF cursor.pc = "open" THEN 0 ELSE 1)

C11_Step ==
    cursor.closed =>
        /\ Requests' = Requests
        /\ status' = status
        /\ out' = out
        /\ cursor'.pc = "stopped"

\* C11: once the caller has stopped consuming the iterator of a query or a
\* subscription, the number of requests sent for the cursor never grows: no
\* fetch and no other request is issued, and no record is yielded
C11_StopIsFinal == [](cursor.closed => cursor.pc = "stopped") /\ [][C11_Step]_vars

\* a subscription the caller left at the first record of its second page
C11_Witness ==
    /\ mode = "subscribe" /\ cursor.closed /\ cursor.pc = "stopped"
    /\ fetches = 2 /\ Len(out) = 2 /\ Len(page) = 2 /\ Len(yielded) = 1

(* C12 ---------------------------------------------------------------------*)

\* every record header decoded from the page in hand was yielded, in the
\* order of the decoded headers, and these are the latest records the caller
\* was handed, all of one fetch
PageYielded ==
    /\ Len(yielded) = Len(gen.decoded.items)
    /\ Len(out) >= Len(yielded)
    /\ \A i \in DOMAIN yielded :
          /\ yielded[i].timestamp = gen.decoded.items[i].timestamp
          /\ out[Len(out) - Len(yielded) + i].timestamp = yielded[i].timestamp
          /\ out[Len(out) - Len(yielded) + i].fetch = out[Len(out)].fetch

C12_Step ==
    /\ Fetched =>
          /\ cursor.pc = "fetch"
          /\ gen.pc \in {"idle", "done"}
          /\ gen.pc = "done" => PageYielded
    /\ (cursor.pc = "page" /\ cursor'.pc = "fetch") =>
          (gen.pc \in {"parsed", "suspended"} /\ gen'.pc = "done")
    /\ out' # out =>
          /\ cursor.pc = "page"
          /\ Len(out') = Len(out) + 1 /\ SubSeq(out', 1, Len(out)) = out
          /\ out'[Len(out')].fetch = fetches
          /\ out'[Len(out')].timestamp = gen'.decoded.items[Len(yielded')].timestamp

\* C12: a fetch is issued only by a cursor that holds no page or whose page
\* was yielded to its last record and found exhausted when the caller asked
\* for the next one, so no fetch overlaps a page; the records reach the
\* caller in the order of the pages and, in a page, in the order of the
\* decoded headers
C12_Sequential ==
    /\ [](\A i, j \in DOMAIN out : i < j => out[i].fetch <= out[j].fetch)
    /\ [][C12_Step]_vars

\* a query that yielded a page of one record and a page of two and is about
\* to fetch a third page
C12_Witness ==
    /\ mode = "query" /\ cursor.pc = "fetch" /\ fetches = 2
    /\ Len(out) = 3 /\ out[1].fetch = 1 /\ out[2].fetch = 2 /\ out[3].fetch = 2
    /\ out[2].timestamp < out[3].timestamp

(***************************************************************************)
(* The batch operations of a bucket.                                       *)
(***************************************************************************)

(* Batch.sorted_items and the headers of the request -----------------------*)

\* item.entry or default_entry: None and "" are false
EntryOr(entry, default_entry) ==
    IF entry = NoEntry \/ entry = <<>> THEN default_entry ELSE entry

\* a sorted_items that hands the items on as they are
UncheckedItems(items, default_entry) ==
    Ok(SortByKey([i \in 1..Len(items) |-> [items[i] EXCEPT !.entry = EntryOr(@, default_entry)]]))

\* Batch.sorted_items(default_entry): the resolved items sorted by
\* (entry, timestamp), or the ValueError for an item without an entry
sorted_items(items, default_entry) ==
    IF \E i \in 1..Len(items) : EntryOr(items[i].entry, default_entry) = NoEntry
    THEN Fail
    ELSE Ok(SortByKey([i \in 1..Len(items) |->
                         [items[i] EXCEPT !.entry = EntryOr(@, default_entry)]]))

\* make_headers_v1(items) of batch/v1.py
v1_make_headers_v1(items) ==
    [ok |-> TRUE, content_length |-> HeaderLoopV1(items).content_length,
     headers |-> Put(HeaderLoopV1(items).headers, CONTENT_TYPE_HEADER, OCTET_STREAM)]

\* the characters urllib.parse.quote(item, safe="") leaves as they are
QuoteSafe(byte) ==
    \/ 48 <= byte /\ byte <= 57
    \/ 65 <= byte /\ byte <= 90
    \/ 97 <= byte /\ byte <= 122
    \/ byte \in {45, 46, 95, 126}

\* urllib.parse.quote(item, safe="")
RECURSIVE UrlQuote(_)
UrlQuote(item) ==
    IF item = <<>> THEN <<>>
    ELSE (IF QuoteSafe(item[1]) THEN <<item[1]>> ELSE PctEscape(item[1]))
         \o UrlQuote(Tail(item))

_encode_list(items) == Join([i \in 1..Len(items) |-> UrlQuote(items[i])], Ch.comma)

_encode_header_value(value) ==
    IF Contains(value, Ch.comma) \/ Contains(value, Ch.eq)
    THEN <<Ch.quote>> \o value \o <<Ch.quote>> ELSE value

\* str(label_index[name]) if name in label_index else name
LabelKey(name, label_names) ==
    IF InList(label_names, name) THEN Dec(IndexOf(label_names, name)) ELSE name

\* _labels_delta(previous, current, label_index): the ops joined by ",",
\* empty where the code returns None
_labels_delta(previous, current, label_names) ==
    LET changed == SortStrs({n \in DOMAIN current :
                               n \notin DOMAIN previous \/ previous[n] # current[n]})
        removed == SortStrs({n \in DOMAIN previous : n \notin DOMAIN current})
    IN  Join([i \in 1..Len(changed) |->
                 LabelKey(changed[i], label_names) \o <<Ch.eq>>
                 \o _encode_header_value(current[changed[i]])]
             \o [i \in 1..Len(removed) |-> LabelKey(removed[i], label_names) \o <<Ch.eq>>],
             Ch.comma)

\* the loop of make_headers_v2 over the first n records: the headers and
\* last_header, the labels of the latest record of each entry index
RECURSIVE HeaderLoopPkgV2(_, _, _, _, _)
HeaderLoopPkgV2(items, n, entries, start_ts, label_names) ==
    IF n = 0 THEN [headers |-> <<>>, last_header |-> [e \in {} |-> EmptyLabels]]
    ELSE LET before == HeaderLoopPkgV2(items, n - 1, entries, start_ts, label_names)
             record == items[n]
             entry_idx == IndexOf(entries, record.entry)
             prev_labels == IF entry_idx \in DOMAIN before.last_header
                            THEN before.last_header[entry_idx] ELSE EmptyLabels
             labels_part == _labels_delta(prev_labels, record.labels, label_names)
             header_value == Dec(record.size) \o <<Ch.comma>> \o record.content_type
                             \o (IF labels_part = <<>> THEN <<>>
                                 ELSE <<Ch.comma>> \o labels_part)
         IN  [headers |-> Put(before.headers,
                              HEADER_PREFIX \o Dec(entry_idx) \o <<Ch.dash>>
                              \o Dec(record.timestamp - start_ts), header_value),
              last_header |-> [e \in (DOMAIN before.last_header) \cup {entry_idx} |->
                                 IF e = entry_idx THEN record.labels
                                 ELSE before.last_header[e]]]

\* make_headers_v2(items) of batch/v2.py
v2_make_headers_v2(items) ==
    IF items = <<>>
    THEN [ok |-> TRUE, content_length |-> 0,
          headers |-> <<<<CONTENT_TYPE_HEADER, OCTET_STREAM>>>>]
    ELSE LET entries == FirstSeen(items, <<>>)
             start_ts == SeqMin([i \in 1..Len(items) |-> items[i].timestamp], Len(items))
             label_names == SortStrs(UNION {DOMAIN items[i].labels : i \in 1..Len(items)})
             head == <<<<ENTRIES_HEADER, _encode_list(entries)>>,
                       <<START_TS_HEADER, Dec(start_ts)>>>>
                     \o (IF label_names = <<>> THEN <<>>
                         ELSE <<<<LABELS_HEADER, _encode_list(label_names)>>>>)
             loop == HeaderLoopPkgV2(items, Len(items), entries, start_ts, label_names)
         IN  [ok |-> TRUE,
              content_length |-> SumTo([i \in 1..Len(items) |-> items[i].size], Len(items)),
              headers |-> Put(head \o loop.headers, CONTENT_TYPE_HEADER, OCTET_STREAM)]

\* Bucket._select_batch_protocol(entry_count): "none" for the ReductError 400
_select_batch_protocol(entry_count, supports_v2) ==
    IF entry_count > 1 THEN (IF supports_v2 THEN "v2" ELSE "none") ELSE "v1"

(* The error map of the response -------------------------------------------*)

\* ReductError.from_header(header)
from_header(header) ==
    IF ~Contains(header, Ch.comma) THEN Fail
    ELSE IF ~ParseInt(Split1(header, Ch.comma)[1]).ok THEN Fail
    ELSE Ok([status_code |-> ParseInt(Split1(header, Ch.comma)[1]).val,
             message |-> Split1(header, Ch.comma)[2]])

\* the step of Bucket._parse_errors_from_headers for one header
ErrorStepV1(errors, key, ts, error) ==
    IF ~errors.ok THEN Fail
    ELSE IF ~StartsWith(key, ERROR_HEADER_PREFIX) THEN errors
    ELSE IF ~ts.ok \/ ~error.ok THEN Fail
    ELSE Ok(Put(errors.val, ts.val, error.val))

\* Bucket._parse_errors_from_headers(headers) and
\* parse_errors_from_headers_v1(headers): the map over the first n headers
RECURSIVE _parse_errors_from_headers(_, _)
_parse_errors_from_headers(headers, n) ==
    IF n = 0 THEN Ok(<<>>)
    ELSE ErrorStepV1(_parse_errors_from_headers(headers, n - 1), headers[n][1],
                     ParseInt(Drop(headers[n][1], Len(ERROR_HEADER_PREFIX))),
                     from_header(headers[n][2]))

\* entries[entry_index] of a Python list: a negative index counts from the
\* end
ListAt(list, index) ==
    IF 0 <= index /\ index < Len(list) THEN Ok(list[index + 1])
    ELSE IF index < 0 /\ 0 - index <= Len(list) THEN Ok(list[Len(list) + index + 1])
    ELSE Fail

\* the step of parse_errors_from_headers_v2 for the header name of suffix
\* entry_index "-" delta; the map is kept flat, keyed by <<entry, timestamp>>
ErrorStepV2(errors, entry, delta, start_ts, error) ==
    IF ~entry.ok \/ ~delta.ok \/ ~error.ok THEN Fail
    ELSE Ok(Put(errors.val, <<entry.val, delta.val + start_ts>>, error.val))

RECURSIVE ErrorLoopV2(_, _, _, _)
ErrorLoopV2(headers, n, entries, start_ts) ==
    IF n = 0 THEN Ok(<<>>)
    ELSE IF ~ErrorLoopV2(headers, n - 1, entries, start_ts).ok THEN Fail
    ELSE IF ~StartsWith(Lower(headers[n][1]), ERROR_HEADER_PREFIX)
    THEN ErrorLoopV2(headers, n - 1, entries, start_ts)
    ELSE IF ~Contains(Drop(Lower(headers[n][1]), Len(ERROR_HEADER_PREFIX)), Ch.dash)
    THEN Fail
    ELSE IF ~ParseInt(RSplit1(Drop(Lower(headers[n][1]), Len(ERROR_HEADER_PREFIX)),
                              Ch.dash)[1]).ok
    THEN Fail
    ELSE ErrorStepV2(ErrorLoopV2(headers, n - 1, entries, start_ts),
                     ListAt(entries,
                            ParseInt(RSplit1(Drop(Lower(headers[n][1]),
                                                  Len(ERROR_HEADER_PREFIX)),
                                             Ch.dash)[1]).val),
                     ParseInt(RSplit1(Drop(Lower(headers[n][1]), Len(ERROR_HEADER_PREFIX)),
                                      Ch.dash)[2]),
                     start_ts, from_header(headers[n][2]))

parse_errors_from_headers_v2(headers) ==
    IF ~_parse_entries_header(headers).ok \/ ~_parse_start_timestamp(headers).ok THEN Fail
    ELSE ErrorLoopV2(headers, Len(headers), _parse_entries_header(headers).val,
                     _parse_start_timestamp(headers).val)

(* Bounds ------------------------------------------------------------------*)

\* items of the batch of one operation
MaxOpItems == 2

\* the label maps {"k": "v"} and {"k": "w,"}
OpLabels(value) == [k \in {<<107>>} |-> value]

\* the items a caller adds: an entry or none, a timestamp, one byte of data
OpItems ==
    [entry : {NoEntry, <<97>>, <<98>>}, timestamp : {1, 2}, size : {1},
     content_type : {<<>>}, labels : {EmptyLabels}]
    \cup {[entry |-> <<97>>, timestamp |-> 1, size |-> 1, content_type |-> TextType,
           labels |-> OpLabels(<<118>>)],
          [entry |-> <<98>>, timestamp |-> 2, size |-> 1, content_type |-> <<>>,
           labels |-> OpLabels(<<119, 44>>)]}

OpBatches == UNION {[1..n -> OpItems] : n \in 0..MaxOpItems}

(* The server ---------------------------------------------------------------*)

\* "409,x": the value of the error header of a refused record
ErrorText == <<52, 48, 57, 44, 120>>

\* a server that answers 200 and refuses the records of the set failed: one
\* error header for each, named by the timestamp (v1) or by the entry index
\* and the delta to the start timestamp (v2)
RECURSIVE ErrorHeaders(_, _, _, _, _)
ErrorHeaders(protocol, items, n, failed, start_ts) ==
    IF n = 0 THEN <<>>
    ELSE IF n \notin failed THEN ErrorHeaders(protocol, items, n - 1, failed, start_ts)
    ELSE Put(ErrorHeaders(protocol, items, n - 1, failed, start_ts),
             IF protocol = "v1" THEN ERROR_HEADER_PREFIX \o Dec(items[n].timestamp)
             ELSE ERROR_HEADER_PREFIX \o Dec(IndexOf(FirstSeen(items, <<>>), items[n].entry))
                  \o <<Ch.dash>> \o Dec(items[n].timestamp - start_ts),
             ErrorText)

OpResponse(protocol, items, failed) ==
    IF protocol = "v1" \/ items = <<>>
    THEN ErrorHeaders("v1", items, Len(items), failed, 0)
    ELSE <<<<ENTRIES_HEADER, EncodeNames(FirstSeen(items, <<>>))>>,
           <<START_TS_HEADER,
             Dec(SeqMin([i \in 1..Len(items) |-> items[i].timestamp], Len(items)))>>>>
         \o ErrorHeaders("v2", items, Len(items), failed,
                         SeqMin([i \in 1..Len(items) |-> items[i].timestamp], Len(items)))

\* the name with its first letter and every letter after a '-' in upper case
Capitalised(name) ==
    [i \in 1..Len(name) |->
       IF name[i] \in 97..122 /\ (i = 1 \/ name[i - 1] = Ch.dash) THEN name[i] - 32
       ELSE name[i]]

\* the response with the names of its error headers as a server or a proxy
\* that capitalises header names writes them: X-Reduct-Error-...
CapitalisedErrors(headers) ==
    [i \in 1..Len(headers) |->
       IF StartsWith(headers[i][1], ERROR_HEADER_PREFIX)
       THEN <<Capitalised(headers[i][1]), headers[i][2]>>
       ELSE headers[i]]

(* The steps of an operation ------------------------------------------------*)

\* bucket.write_batch(entry_name, batch), update_batch or remove_batch was
\* called; the response is read by the bucket method or by the functions of
\* the batch modules
OpInit ==
    /\ CodecIdle
    /\ RowIdle
    /\ DemuxIdle
    /\ CursorIdle
    /\ \E kind \in {"write", "update", "remove"}, parser \in {"bucket", "batch"},
          default_entry \in {NoEntry, <<97>>}, batch \in OpBatches,
          supports_v2 \in BOOLEAN :
          op = [pc |-> "called", kind |-> kind, parser |-> parser,
                default_entry |-> default_entry, batch |-> batch,
                supports_v2 |-> supports_v2, items |-> <<>>, protocol |-> "none",
                record_headers |-> NoHeaders, path |-> NoPath, requests |-> 0, status |-> 0,
                failed |-> {}, response |-> <<>>, errors |-> <<>>, raised |-> "none",
          body |-> <<>>]

\* Bucket._batch_path(protocol, entry_name, operation): /io/{bucket}/{operation}
\* or /b/{bucket}/{entry_name}/batch
_batch_path(protocol, entry_name, operation) ==
    IF protocol = "v2" THEN [api |-> "io", entry |-> <<-1>>, operation |-> operation]
    ELSE [api |-> "b", entry |-> entry_name, operation |-> "batch"]

\* iter_body of write_batch: the data of the records that have data, in the
\* order of items; a chunk is the record it is the data of
iter_body(items) == SelectSeq(items, LAMBDA record : record.size > 0)

\* Bucket._make_headers once the items are resolved, the path of the
\* request and, in write_batch, its body
MakeHeaders(items, protocol) ==
    IF protocol = "none"
    THEN op' = [op EXCEPT !.pc = "raised", !.raised = "ReductError"]
    ELSE op' = [op EXCEPT !.pc = "made", !.items = items, !.protocol = protocol,
                          !.path = _batch_path(protocol, op.default_entry, op.kind),
                          !.body = IF op.kind = "write" THEN iter_body(items) ELSE <<>>,
                          !.record_headers = IF protocol = "v2"
                                             THEN v2_make_headers_v2(items)
                                             ELSE v1_make_headers_v1(items)]

\* the call up to its request: batch.sorted_items(default_entry), the choice
\* of the protocol and the headers of the records
OpMakeHeaders ==
    /\ op.pc = "called"
    /\ \E sorted \in {sorted_items(op.batch, op.default_entry)} :
          IF ~sorted.ok
          THEN op' = [op EXCEPT !.pc = "raised", !.raised = "ValueError"]
          ELSE MakeHeaders(sorted.val,
                           _select_batch_protocol(
                               Cardinality({sorted.val[i].entry : i \in 1..Len(sorted.val)}),
                               op.supports_v2))
    /\ UNCHANGED <<codecVars, demuxVars, cursorVars, rowVars>>

\* the error map the call returns for the headers of an OK response
ErrorsOf(parser, protocol, headers) ==
    IF parser = "batch" /\ protocol = "v2" THEN parse_errors_from_headers_v2(headers)
    ELSE _parse_errors_from_headers(headers, Len(headers))

\* the return of the call for the headers of an OK response
OpReturn(headers, failed, errors) ==
    op' = [op EXCEPT !.pc = IF errors.ok THEN "returned" ELSE "raised",
                     !.raised = IF errors.ok THEN "none" ELSE "ValueError",
                     !.requests = @ + 1, !.status = 200, !.failed = failed,
                     !.response = headers, !.errors = errors.val]

\* await self._http.request_all(...) and the rest of the call: the request
\* is answered with an error status, or with 200 and the error headers of
\* the records the server refused
OpRespond ==
    /\ op.pc = "made"
    /\ \/ \E s \in {404, 599} :
             op' = [op EXCEPT !.pc = IF ResponseOk(s) THEN "returned" ELSE "raised",
                              !.raised = IF ResponseOk(s) THEN "none" ELSE "ReductError",
                              !.requests = @ + 1, !.status = s]
       \/ \E failed \in SUBSET (1..Len(op.items)) :
             \E headers \in {OpResponse(op.protocol, op.items, failed),
                             CapitalisedErrors(OpResponse(op.protocol, op.items, failed))} :
                OpReturn(headers, failed, ErrorsOf(op.parser, op.protocol, headers))
    /\ UNCHANGED <<codecVars, demuxVars, cursorVars, rowVars>>

NextOp ==
    \/ OpMakeHeaders
    \/ OpRespond

SpecOp == OpInit /\ [][NextOp]_vars

(* C13 ---------------------------------------------------------------------*)

\* the error of the header value "409,x"
RefusedError == [status_code |-> 409, message |-> <<120>>]

\* the entries of the error map the refused records stand for: keyed by the
\* timestamp (v1) or by the entry and the timestamp (v2)
ExpectedErrors ==
    {<<IF op.protocol = "v1" THEN op.items[i].timestamp
       ELSE <<op.items[i].entry, op.items[i].timestamp>>, RefusedError>> : i \in op.failed}

\* C13: a write_batch, update_batch or remove_batch answered with an OK
\* status returns without raising, and the map it returns holds exactly one
\* entry for every error header of the response: the timestamp (v1) or the
\* entry and the timestamp (v2) with the status code and the message
C13_ErrorMap ==
    (op.pc \in {"returned", "raised"} /\ op.status = 200) =>
        /\ op.pc = "returned"
        /\ {op.errors[i] : i \in 1..Len(op.errors)} = ExpectedErrors

\* a v2 operation on two entries of which the server refused one record
C13_Witness ==
    /\ op.pc \in {"returned", "raised"} /\ op.status = 200
    /\ op.protocol = "v2" /\ op.parser = "bucket" /\ op.failed = {2}

(* C14 ---------------------------------------------------------------------*)

\* the response has a record header whose entry index is not less than the
\* number of names in x-reduct-entries
HasStrayHeader == \E h \in DOMAIN resp.headers : resp.headers[h] = StrayHeader

\* C14: decoding a v2 response with a record header whose entry index is
\* out of range fails with an error: the header is never passed over and
\* the response yields no record
C14_IndexOutOfRange ==
    (HasStrayHeader /\ gen.pc # "start") => (gen.pc = "error" /\ yielded = <<>>)

\* the decoder of batch_v2.py raised on a response with such a header
C14_Witness ==
    HasStrayHeader /\ impl = "batch_v2" /\ page # <<>> /\ gen.pc = "error"

\* the decoder of v2.py passed the header over and yielded the records of
\* the other headers
C14_Skipped ==
    HasStrayHeader /\ impl = "pkg" /\ gen.pc = "done" /\ Len(yielded) = Len(page)
        /\ page # <<>>

(* C15 ---------------------------------------------------------------------*)

\* the name is x-reduct- followed by digits, '-' and digits
HasRecordForm(name) ==
    /\ StartsWith(Lower(name), HEADER_PREFIX)
    /\ \E k \in 1..Len(name) :
          /\ k > Len(HEADER_PREFIX) + 1
          /\ name[k] = Ch.dash
          /\ IsDigit(SubSeq(name, Len(HEADER_PREFIX) + 1, k - 1))
          /\ IsDigit(Drop(name, k))

\* the headers of the response whose name has that form
RecordFormHeaders == {h \in DOMAIN wire.headers : HasRecordForm(wire.headers[h][1])}

\* the position of an entry name in the decoded x-reduct-entries
EntryIndexOf(entry) ==
    LET entries == _parse_entries_header(wire.headers).val
    IN  CHOOSE e \in 1..Len(entries) : entries[e] = entry

\* the list _parse_batched_headers of batch_v2.py returned is sorted by
\* (entry index, timestamp) and has one element per header of the form
SortedBatchV2 ==
    parsed.ok =>
        /\ \A i, j \in DOMAIN parsed.val :
              i < j => PairLess(<<EntryIndexOf(parsed.val[i].entry), parsed.val[i].timestamp>>,
                                <<EntryIndexOf(parsed.val[j].entry), parsed.val[j].timestamp>>)
        /\ Len(parsed.val) = Cardinality(RecordFormHeaders)

\* the list parsed_headers of v2.py is sorted by (entry index, delta) and has
\* one element per header of the form
SortedPkgV2 ==
    LET parsed_headers == ParsedHeadersV2(wire.headers)
    IN  /\ \A i, j \in DOMAIN parsed_headers :
              i < j => PairLess(parsed_headers[i], parsed_headers[j])
        /\ Len(parsed_headers) = Cardinality(RecordFormHeaders)

\* C15: whatever the order of the record headers in the header map, the
\* decoded header list is sorted ascending by (entry index, timestamp), and
\* no header under the error prefix or without the form x-reduct- digits '-'
\* digits appears in it
C15_SortedHeaders == phase = "decoded" => (SortedBatchV2 /\ SortedPkgV2)

\* the headers came reversed, with a signed header among them, and were
\* decoded
C15_Signed ==
    /\ phase = "decoded" /\ Len(_records) = 2 /\ parsed.ok
    /\ \E h \in DOMAIN wire.headers : wire.headers[h] = SignedHeader

(* C16 ---------------------------------------------------------------------*)

\* the entry names of the records of the batch that was encoded
EncodedEntries == {_records[i].entry : i \in DOMAIN _records}

\* C16: _decode_entry_name(_encode_entry_name(s)) equals s for every entry
\* name s, those with '%' and those with bytes that are no token characters
\* included
C16_NameRoundTrip ==
    (phase # "building" /\ wire.ok) =>
        \A s \in EncodedEntries : _decode_entry_name(_encode_entry_name(s)) = Ok(s)

\* a batch with the entry "b/", whose '/' is escaped, was encoded: the name
\* comes back
C16_Escaped ==
    /\ phase # "building" /\ wire.ok
    /\ EncodedEntries = {<<98, 47>>}
    /\ _encode_entry_name(<<98, 47>>) = <<98, 37, 50, 70>>
    /\ _decode_entry_name(<<98, 37, 50, 70>>) = Ok(<<98, 47>>)

\* a batch with the entry "%41" was encoded: the name is written as it is
\* and read back as "A"
C16_Percent ==
    /\ phase # "building" /\ wire.ok
    /\ EncodedEntries = {<<37, 52, 49>>}
    /\ _encode_entry_name(<<37, 52, 49>>) = <<37, 52, 49>>
    /\ _decode_entry_name(<<37, 52, 49>>) = Ok(<<65>>)

(* C17 ---------------------------------------------------------------------*)

\* the batch of the call has an item without an entry and the call has no
\* default entry
Unresolved ==
    /\ op.default_entry = NoEntry
    /\ \E i \in DOMAIN op.batch : op.batch[i].entry = NoEntry

\* the batch that is encoded has a record without an entry
Unnamed == \E i \in DOMAIN _records : _records[i].entry = NoEntry

\* the step that encodes such a batch ends in the error and leaves the batch
\* as it was
C17_Step ==
    /\ (op.pc = "called" /\ Unresolved) => (op'.pc = "raised" /\ op'.batch = op.batch)
    /\ (phase = "building" /\ phase' = "encoded" /\ Unnamed) =>
          (~wire'.ok /\ _records' = _records)

\* C17: encoding a batch with an item without an entry while there is no
\* default entry fails with an error before any header is produced and
\* before any request is sent, and the batch is left as it was
C17_NoEntryFails ==
    /\ []((op.pc \notin {"idle", "called"} /\ Unresolved) =>
            /\ op.pc = "raised" /\ op.raised = "ValueError"
            /\ op.record_headers = NoHeaders /\ op.requests = 0)
    /\ []((phase \notin {"idle", "building"} /\ Unnamed) =>
            (~wire.ok /\ wire.headers = <<>> /\ phase = "encoded"))
    /\ [][C17_Step]_vars

\* write_batch(None, batch) raised for a batch of an item without an entry
\* and an item of the entry "b"
C17_Witness ==
    /\ op.pc = "raised" /\ op.kind = "write" /\ Unresolved
    /\ Len(op.batch) = 2 /\ op.batch[2].entry = <<98>>

(* C18 ---------------------------------------------------------------------*)

\* a step of add, and a step of clear on a batch that is not empty
C18_Step ==
    /\ adds' = adds + 1 => _last_access' > 0
    /\ (adds > 0 /\ adds' = 0) => (Len(_records') = 0 /\ _total_size' = 0 /\ _last_access' = 0)

\* C18: after any sequence of add and clear calls len(batch) is the number
\* of records added since the last clear and batch.size is the sum of their
\* payload lengths; after clear() len, size and last_access are 0; after an
\* add last_access is greater than 0
C18_LenAndSize ==
    /\ [](phase = "building" => (Len(_records) = adds /\ _total_size = added))
    /\ [][C18_Step]_vars

\* two records of the same entry and timestamp were added: the batch holds
\* one record and counts the bytes of both
C18_Replaced ==
    /\ phase = "building" /\ adds = 2 /\ Len(_records) = 1
    /\ added = 24 /\ _total_size = 24 /\ _last_access > 0

(* C19 ---------------------------------------------------------------------*)

\* C19: once the payload of a record was consumed through read_all or the
\* chunked read, a further read_all or chunked read on the record fails: no
\* such call returns, neither with the data nor with an empty result
C19_ReadOnce == \A i \in DOMAIN got : got[i].again = NoCall

\* read_all was called twice on a buffered record of two bytes and returned
\* the two bytes both times
C19_DataAgain ==
    \E i \in DOMAIN got :
        /\ ~yielded[i].streamed /\ yielded[i].size = 2
        /\ got[i].call = "read_all" /\ got[i].again.call = "read_all"
        /\ got[i].again.chunks = got[i].chunks /\ Len(got[i].chunks[1]) = 2

\* a buffered record of two bytes was read in chunks; read_all on it then
\* returned no byte
C19_EmptyAgain ==
    \E i \in DOMAIN got :
        /\ ~yielded[i].streamed /\ yielded[i].size = 2
        /\ got[i].call = "read" /\ Len(Flatten(got[i].chunks)) = 2
        /\ got[i].again = [call |-> "read_all", chunks |-> <<<<>>>>]

(* C20 ---------------------------------------------------------------------*)

\* the records of the batch in the order they are encoded in
Encoded == BatchItems(_records)

\* the record j of the batch follows a record of the same entry
Follows(j) == j \in 2..Len(Encoded) /\ Encoded[j].entry = Encoded[j - 1].entry

\* the value of the header make_headers_v2 wrote for the record j
HeaderValue(j) ==
    LET prep == _prepare_records_v2(_records)
    IN  GetOr(wire.headers,
              HEADER_PREFIX \o Dec(prep.indexed[j].index) \o <<Ch.dash>>
                  \o Dec(prep.indexed[j].timestamp - prep.start_ts),
              <<>>)

\* the header value has a length and at most a content type: no label delta
NoLabelDelta(value) == value # <<>> /\ Len(SplitAll(value, Ch.comma)) <= 2

\* a batch with records was encoded and the headers were decoded
RoundTripDone == phase = "decoded" /\ _records # <<>>

C20_Removed ==
    /\ RoundTripDone /\ Follows(2)
    /\ Encoded[1].labels # EmptyLabels /\ Encoded[2].labels = EmptyLabels
    /\ ~NoLabelDelta(HeaderValue(2))
    /\ parsed.ok /\ parsed.val[2].header.labels = EmptyLabels

(* C21 ---------------------------------------------------------------------*)

\* what the call made of the response: the error map, or the exception
Outcome == [ok |-> op.pc = "returned", val |-> op.errors]

\* C21: header names are matched without regard to letter case: the error
\* map a call returns for a response is the one it returns for the same
\* response with the names in lower case (X-Reduct-Error-<ts> is read as
\* x-reduct-error-<ts> is)
C21_AnyCase ==
    (op.pc \in {"returned", "raised"} /\ op.status = 200) =>
        Outcome = ErrorsOf(op.parser, op.protocol, LowerNames(op.response))

\* a v1 call whose second record the server refused with the header
\* X-Reduct-Error-2 returned an empty error map
C21_Dropped ==
    /\ op.pc = "returned" /\ op.status = 200 /\ op.protocol = "v1"
    /\ op.failed = {2} /\ op.response = <<<<Capitalised(ERROR_HEADER_PREFIX) \o <<50>>, ErrorText>>>>
    /\ op.errors = <<>>

\* a v2 call read by parse_errors_from_headers_v2 returned the error of the
\* header X-Reduct-Error-0-0
C21_Lowered ==
    /\ op.pc = "returned" /\ op.status = 200 /\ op.protocol = "v2" /\ op.parser = "batch"
    /\ \E h \in DOMAIN op.response :
          op.response[h][1] = Capitalised(ERROR_HEADER_PREFIX) \o <<48, 45, 48>>
    /\ Len(op.errors) = 1

(* C22 ---------------------------------------------------------------------*)

\* the entry the request addresses the item i to: the entry of the path
\* (v1), or the name the x-reduct-entries header has at the entry index of
\* the header of the item (v2)
AddressedTo(i) ==
    IF op.protocol = "v1" THEN op.path.entry
    ELSE LET entries == _parse_encoded_list(GetOr(op.record_headers.headers, ENTRIES_HEADER, <<>>))
             start_ts == ParseInt(GetOr(op.record_headers.headers, START_TS_HEADER, <<>>)).val
         IN  IF \E e \in 1..Len(entries) :
                   /\ entries[e] = op.items[i].entry
                   /\ HasKey(op.record_headers.headers,
                             HEADER_PREFIX \o Dec(e - 1) \o <<Ch.dash>>
                                 \o Dec(op.items[i].timestamp - start_ts))
             THEN op.items[i].entry
             ELSE <<-1>>

\* the entry an item of the batch resolves to: its own, else entry_name
ResolvedEntry(item) == IF item.entry # NoEntry THEN item.entry ELSE op.default_entry

\* C22: write_batch, update_batch and remove_batch address every item of
\* the batch to its resolved entry: the entry of the item when it has one,
\* entry_name otherwise
C22_ResolvedEntry ==
    op.pc \in {"made", "returned"} =>
        /\ Len(op.items) = Len(op.batch)
        /\ \A i \in DOMAIN op.items : AddressedTo(i) = op.items[i].entry
        /\ \A i \in DOMAIN op.batch :
              \E j \in DOMAIN op.items :
                 /\ op.items[j].entry = ResolvedEntry(op.batch[i])
                 /\ op.items[j].timestamp = op.batch[i].timestamp

\* write_batch("a", batch) with a batch whose items are all of the entry
\* "b": the request goes to /b/{bucket}/a/batch
C22_WrongEntry ==
    /\ op.pc = "made" /\ op.kind = "write" /\ op.default_entry = <<97>>
    /\ Len(op.batch) = 2 /\ \A i \in DOMAIN op.batch : op.batch[i].entry = <<98>>
    /\ op.path = [api |-> "b", entry |-> <<97>>, operation |-> "batch"]

\* a batch of the entries "a" and "b": the request goes to /io/{bucket}/write
\* and every item is addressed to its entry
C22_MultiEntry ==
    /\ op.pc = "made" /\ op.kind = "write" /\ op.protocol = "v2"
    /\ op.path = [api |-> "io", entry |-> <<-1>>, operation |-> "write"]
    /\ \A i \in DOMAIN op.items : AddressedTo(i) = op.items[i].entry

(* C23 ---------------------------------------------------------------------*)

\* the headers of a header map that stand for a record: x-reduct-time-<ts>
\* (v1) or x-reduct-<entry index>-<delta> (v2)
RecordHeadersOf(headers) ==
    {h \in DOMAIN headers :
        \/ StartsWith(headers[h][1], TIME_PREFIX)
        \/ HasRecordForm(headers[h][1])}

\* the size written in a header value: its first field
SizeWritten(value) == ParseInt(SplitAll(value, Ch.comma)[1]).val

\* the sum of the sizes written in the headers of the set hs
RECURSIVE SizesWritten(_, _)
SizesWritten(headers, hs) ==
    IF hs = {} THEN 0
    ELSE LET h == CHOOSE x \in hs : TRUE
         IN  SizeWritten(headers[h][2]) + SizesWritten(headers, hs \ {h})

\* every item that was added has its header and the content length is the
\* sum of the sizes of the headers
AllEncoded(made, added_items) ==
    /\ Cardinality(RecordHeadersOf(made.headers)) = added_items
    /\ made.content_length = SizesWritten(made.headers, RecordHeadersOf(made.headers))

\* C23: the client drops no item of a batch, also not one of two items of
\* the same (entry, timestamp): make_headers_v1 and make_headers_v2 produce
\* one record header per item added, and the content length is the sum of
\* the sizes written in those headers
C23_NoDeduplication ==
    /\ op.pc \in {"made", "returned"} => AllEncoded(op.record_headers, Len(op.batch))
    /\ (phase = "encoded" /\ wire.ok) => AllEncoded(wire, adds)

\* a batch of two items of the entry "a" and the timestamp 1: one header
\* x-reduct-time-1 of size 1 and a content length of 2
C23_Overwritten ==
    /\ op.pc = "made" /\ op.protocol = "v1" /\ Len(op.batch) = 2
    /\ Cardinality(RecordHeadersOf(op.record_headers.headers)) = 1
    /\ op.record_headers.content_length = 2
    /\ SizesWritten(op.record_headers.headers, RecordHeadersOf(op.record_headers.headers)) = 1

(* C24 ---------------------------------------------------------------------*)

\* the entries of the batch
BatchEntries == {_records[i].entry : i \in DOMAIN _records}

\* the list holds every entry of the batch once, in the order in which the
\* entries first occur in the batch sorted by (entry, timestamp)
ListsEntries(list) ==
    /\ {list[i] : i \in DOMAIN list} = BatchEntries
    /\ \A i, j \in DOMAIN list : i < j => StrLess(list[i], list[j])

\* the least timestamp of the batch
MinTimestamp ==
    CHOOSE m \in {_records[i].timestamp : i \in DOMAIN _records} :
        \A i \in DOMAIN _records : m <= _records[i].timestamp

\* the sum of the sizes of the first n records of the batch
RECURSIVE BatchBytes(_)
BatchBytes(n) == IF n = 0 THEN 0 ELSE BatchBytes(n - 1) + _records[n].size

\* C24: for every non-empty batch, in whatever order its records were
\* added, make_headers_v2 lists each entry once in x-reduct-entries, in the
\* order of first occurrence in the sorted batch, writes the least timestamp
\* to x-reduct-start-ts, names the header of each record by the index of
\* its entry and its timestamp less the start timestamp, which is never
\* negative, and returns the sum of the record sizes as content length
C24_EntriesAndDeltas ==
    (phase = "encoded" /\ wire.ok /\ _records # <<>>) =>
        \E list \in UNION {[1..n -> BatchEntries] : n \in 1..Len(_records)} :
            /\ ListsEntries(list)
            /\ GetOr(wire.headers, ENTRIES_HEADER, <<>>)
                 = Join([i \in DOMAIN list |-> _encode_entry_name(list[i])], Ch.comma)
            /\ GetOr(wire.headers, START_TS_HEADER, <<>>) = Dec(MinTimestamp)
            /\ \A i \in DOMAIN _records :
                  /\ _records[i].timestamp - MinTimestamp >= 0
                  /\ HasKey(wire.headers,
                            HEADER_PREFIX \o Dec(IndexOf(list, _records[i].entry)) \o <<Ch.dash>>
                                \o Dec(_records[i].timestamp - MinTimestamp))
            /\ Cardinality(RecordHeadersOf(wire.headers)) = Len(_records)
            /\ wire.content_length = BatchBytes(Len(_records))

\* the entry "b/" was added with the timestamp 3 and then the entry "%41"
\* with the timestamp 12: the entries header is "%41,b%2F", the start
\* timestamp 3 and the headers are x-reduct-1-0 and x-reduct-0-9
C24_Witness ==
    /\ phase = "encoded" /\ wire.ok /\ Len(_records) = 2
    /\ _records[1].entry = <<98, 47>> /\ _records[1].timestamp = 3
    /\ _records[2].entry = <<37, 52, 49>> /\ _records[2].timestamp = 12
    /\ GetOr(wire.headers, ENTRIES_HEADER, <<>>) = <<37, 52, 49, 44, 98, 37, 50, 70>>
    /\ HasKey(wire.headers, HEADER_PREFIX \o <<49, 45, 48>>)
    /\ HasKey(wire.headers, HEADER_PREFIX \o <<48, 45, 57>>)

(* C25 ---------------------------------------------------------------------*)

\* make_headers_v2 has just made the headers of a batch with records
HeadersMade == phase = "encoded" /\ wire.ok /\ _records # <<>>

\* the labels of the record before j of the same entry in the encoded
\* order, the empty map for the first record of an entry
LabelsBefore(items, j) ==
    IF j > 1 /\ items[j].entry = items[j - 1].entry THEN items[j - 1].labels ELSE EmptyLabels

\* the label keys of the record j whose value differs from the record before
Changed(items, j) ==
    LET before == LabelsBefore(items, j)
    IN  {k \in (DOMAIN items[j].labels) \cup (DOMAIN before) :
            LabelsGet(before, k) # LabelsGet(items[j].labels, k)}

\* the names x-reduct-labels lists
LabelTable ==
    LET value == GetOr(wire.headers, LABELS_HEADER, <<>>)
    IN  IF value = <<>> THEN <<>> ELSE SplitAll(value, Ch.comma)

\* the label segment of a header value: what follows the content type
LabelSegment(value) ==
    LET fields == SplitAll(value, Ch.comma)
    IN  IF Len(fields) <= 2 THEN <<>> ELSE Join(SubSeq(fields, 3, Len(fields)), Ch.comma)

\* the first record that has an op for the key
FirstUse(items, k) ==
    CHOOSE j \in DOMAIN items :
        k \in Changed(items, j) /\ \A i \in 1..(j - 1) : k \notin Changed(items, i)

\* the ops of the record j as the claim has them: one index=value per
\* changed key in ascending index, the value empty for a removed key
OpsOf(items, table, j) ==
    LET keys == Changed(items, j)
        at(i) == CHOOSE k \in keys :
                    Cardinality({x \in keys : IndexOf(table, x) < IndexOf(table, k)}) = i - 1
        text(k) == Dec(IndexOf(table, k)) \o <<Ch.eq>>
                   \o (IF k \notin DOMAIN items[j].labels THEN <<>>
                       ELSE IF Contains(items[j].labels[k], Ch.comma)
                            THEN <<Ch.quote>> \o items[j].labels[k] \o <<Ch.quote>>
                       ELSE items[j].labels[k])
    IN  Join([i \in 1..Cardinality(keys) |-> text(at(i))], Ch.comma)

\* the label segments of the record headers, in the encoded order
SegmentsMade ==
    LET prep == _prepare_records_v2(_records)
    IN  [j \in DOMAIN prep.indexed |->
            LabelSegment(GetOr(wire.headers,
                               HEADER_PREFIX \o Dec(prep.indexed[j].index) \o <<Ch.dash>>
                                   \o Dec(prep.indexed[j].timestamp - prep.start_ts),
                               <<>>))]

\* C25: the label segment of every record header holds one op for exactly
\* the label keys whose value differs from the preceding record of the same
\* entry (from the empty map for the first record of an entry): the new value
\* for an added or changed key, an empty value for a removed key, no op for
\* an unchanged key; a key is written as its index in x-reduct-labels, which
\* lists each label name once, in the order of first use
C25_LabelDelta ==
    HeadersMade =>
        LET items == Encoded
            table == LabelTable
            first == [a \in DOMAIN table |-> FirstUse(items, table[a])]
        IN  /\ \A a, b \in DOMAIN table : table[a] = table[b] => a = b
            /\ {table[a] : a \in DOMAIN table} = UNION {Changed(items, j) : j \in DOMAIN items}
            /\ \A a, b \in DOMAIN table :
                  a < b => \/ first[a] < first[b]
                           \/ first[a] = first[b] /\ StrLess(table[a], table[b])
            /\ SegmentsMade = [j \in DOMAIN items |-> OpsOf(items, table, j)]

\* the second record of an entry removes one label and changes another: its
\* header ends with the two ops 0=v=w,1= and the table is j,k
C25_Witness ==
    /\ HeadersMade /\ Follows(2)
    /\ \E k \in Changed(Encoded, 2) : k \notin DOMAIN Encoded[2].labels
    /\ \E k \in Changed(Encoded, 2) :
          k \in DOMAIN Encoded[2].labels /\ k \in DOMAIN Encoded[1].labels
    /\ LabelSegment(HeaderValue(2)) = <<48, 61, 118, 61, 119, 44, 49, 61>>
    /\ LabelTable = <<<<106>>, <<107>>>>

(* C26 ---------------------------------------------------------------------*)

\* the headers make_headers_v2 emits for an empty batch went through
\* _parse_batched_headers: x-reduct-entries is empty, x-reduct-start-ts is 0
EmptyBatchDecoded ==
    /\ phase = "decoded" /\ _records = <<>>
    /\ GetOr(wire.headers, ENTRIES_HEADER, <<-1>>) = <<>>
    /\ GetOr(wire.headers, START_TS_HEADER, <<>>) = <<48>>

\* C26: the headers of an empty batch are parsed into an empty list of
\* record headers without an error
C26_EmptyBatch == EmptyBatchDecoded => parsed.ok /\ parsed.val = <<>>

\* the headers of an empty batch were parsed and the parser raised
C26_Raised == EmptyBatchDecoded /\ ~parsed.ok

(* C27 ---------------------------------------------------------------------*)

\* the label fields of a v1 header value as the claim has them: ,label=value
\* with the value in double quotes when the value holds a comma or "="
RECURSIVE QuotedByValue(_, _)
QuotedByValue(labels, keys) ==
    IF keys = <<>> THEN <<>>
    ELSE (IF Contains(labels[keys[1]], Ch.comma) \/ Contains(labels[keys[1]], Ch.eq)
          THEN <<Ch.comma>> \o keys[1] \o <<Ch.eq, Ch.quote>> \o labels[keys[1]] \o <<Ch.quote>>
          ELSE <<Ch.comma>> \o keys[1] \o <<Ch.eq>> \o labels[keys[1]])
         \o QuotedByValue(labels, Tail(keys))

\* the call built the headers of its records with make_headers_v1
MadeV1 == op.pc = "made" /\ op.protocol = "v1" /\ op.record_headers.ok

\* the header make_headers_v1 wrote for the timestamp of the item i
TimeHeader(i) ==
    GetOr(op.record_headers.headers, TIME_PREFIX \o Dec(op.items[i].timestamp), <<>>)

\* C27: the v1 header value of a record is size,contentType followed by
\* ,label=value for each label, a value that holds a comma or "=" written in
\* double quotes and any other value written bare
C27_QuotedValues ==
    MadeV1 =>
        \A i \in DOMAIN op.items :
            (\A l \in (i + 1)..Len(op.items) : op.items[l].timestamp # op.items[i].timestamp)
            => TimeHeader(i) = Dec(op.items[i].size) \o <<Ch.comma>> \o op.items[i].content_type
                               \o QuotedByValue(op.items[i].labels,
                                                SortStrs(DOMAIN op.items[i].labels))

\* a record with the label k = "w," got the header value 1,<type>,k=w, with
\* no quotes
C27_Unquoted ==
    /\ MadeV1
    /\ \E i \in DOMAIN op.items :
          /\ DOMAIN op.items[i].labels = {<<107>>}
          /\ op.items[i].labels[<<107>>] = <<119, 44>>
          /\ TimeHeader(i) = Dec(op.items[i].size) \o <<Ch.comma>> \o op.items[i].content_type
                             \o <<Ch.comma, 107, Ch.eq, 119, 44>>

(* The v1 header-value parser on written header values ------------------------*)

\* labels in one header value
MaxRowLabels == 2

\* "k", "j"
RowNames == {<<107>>, <<106>>}

\* "v", "a,b", "x,y,z", "="
RowValues == {<<118>>, <<97, 44, 98>>, <<120, 44, 121, 44, 122>>, <<61>>}

\* the label fields of a header value: each name at most once
RowLabels ==
    UNION {{w \in [1..n -> [name : RowNames, value : RowValues]] :
              \A a, b \in 1..n : w[a].name = w[b].name => a = b} : n \in 0..MaxRowLabels}

\* ,label=value for each label, a value with a comma inside double quotes
RECURSIVE WrittenLabels(_)
WrittenLabels(written) ==
    IF written = <<>> THEN <<>>
    ELSE <<Ch.comma>> \o written[1].name \o <<Ch.eq>>
         \o (IF Contains(written[1].value, Ch.comma)
             THEN <<Ch.quote>> \o written[1].value \o <<Ch.quote>>
             ELSE written[1].value)
         \o WrittenLabels(Tail(written))

\* the header values handed to the parser: size,contentType and the labels
Rows ==
    {[text |-> Dec(size) \o <<Ch.comma>> \o content_type \o WrittenLabels(written),
      size |-> size, content_type |-> content_type, written |-> written] :
        size \in {1, 12}, content_type \in {TextType, <<>>}, written \in RowLabels}

RowInit ==
    /\ CodecIdle
    /\ DemuxIdle
    /\ CursorIdle
    /\ OpIdle
    /\ csv_row \in Rows
    /\ csv = [pc |-> "start", result |-> Fail]

\* content_length, content_type, labels = _parse_header_as_csv_row(value)
ParseRow ==
    /\ csv.pc = "start"
    /\ csv' = [pc |-> "parsed", result |-> _parse_header_as_csv_row(csv_row.text)]
    /\ UNCHANGED <<csv_row, codecVars, demuxVars, cursorVars, opVars>>

NextRow == ParseRow

SpecRow == RowInit /\ [][NextRow]_vars

(* C28 ---------------------------------------------------------------------*)

\* the labels that were written into the header value, as a map
LabelsWritten ==
    [k \in {csv_row.written[i].name : i \in DOMAIN csv_row.written} |->
        (CHOOSE w \in {csv_row.written[i] : i \in DOMAIN csv_row.written} : w.name = k).value]

\* C28: the parser splits on commas except inside double quotes: the first
\* field is the content length, the second the content type, a label value
\* written in quotes with commas inside is decoded with exactly that value,
\* and the fields after it are decoded unchanged
C28_QuotedCommas ==
    csv.pc = "parsed" =>
        /\ csv.result.ok
        /\ csv.result.val.content_length = csv_row.size
        /\ csv.result.val.content_type = csv_row.content_type
        /\ csv.result.val.labels = LabelsWritten

\* 1,t/x,k="a,b",j=v was parsed: k has the value "a with the quote and
\* without ,b
C28_Split ==
    /\ csv.pc = "parsed"
    /\ csv_row.written = <<[name |-> <<107>>, value |-> <<97, 44, 98>>],
                       [name |-> <<106>>, value |-> <<118>>]>>
    /\ csv.result.ok
    /\ csv.result.val.labels[<<107>>] = <<Ch.quote, 97>>
    /\ csv.result.val.labels[<<106>>] = <<118>>

(* C29 ---------------------------------------------------------------------*)

\* the records the v1 headers describe, in the order of the headers; a v1
\* header names no entry
RECURSIVE DescribedV1(_)
DescribedV1(headers) ==
    IF headers = <<>> THEN <<>>
    ELSE (IF StartsWith(headers[1][1], TIME_PREFIX)
          THEN <<[entry |-> NoEntry,
                  timestamp |-> ParseInt(Drop(headers[1][1], Len(TIME_PREFIX))).val,
                  size |-> SizeWritten(headers[1][2])]>>
          ELSE <<>>)
         \o DescribedV1(Tail(headers))

\* the records the v2 headers describe, ascending by (entry index, delta)
DescribedV2(headers) ==
    LET sorted == ParsedHeadersV2(headers)
        entries == SplitAll(GetOr(headers, ENTRIES_HEADER, <<>>), Ch.comma)
        start_ts == ParseInt(GetOr(headers, START_TS_HEADER, <<>>)).val
    IN  [i \in DOMAIN sorted |->
            [entry |-> entries[sorted[i][1] + 1], timestamp |-> start_ts + sorted[i][2],
             size |-> SizeWritten(sorted[i][3])]]

\* write_batch built its request
WriteMade == op.pc = "made" /\ op.kind = "write" /\ op.record_headers.ok

\* the records the headers of the request describe, in the order of a decoder
Described ==
    IF op.protocol = "v2" THEN DescribedV2(op.record_headers.headers)
    ELSE DescribedV1(op.record_headers.headers)

\* the number of bytes of the first n chunks of the body
RECURSIVE BodyBytes(_)
BodyBytes(n) == IF n = 0 THEN 0 ELSE BodyBytes(n - 1) + op.body[n].size

\* C29: the body of write_batch is the payloads in the order in which a
\* decoder orders the record headers (ascending (entry index, delta) in v2,
\* header emission order in v1): the i-th header describes the i-th payload,
\* and the Content-Length sent is the number of bytes of the body
C29_BodyOrder ==
    WriteMade =>
        /\ Len(Described) = Len(op.body)
        /\ \A i \in DOMAIN op.body :
              i \in DOMAIN Described =>
                 /\ op.protocol = "v2" => Described[i].entry = op.body[i].entry
                 /\ Described[i].timestamp = op.body[i].timestamp
                 /\ Described[i].size = op.body[i].size
        /\ op.record_headers.content_length = BodyBytes(Len(op.body))

\* two payloads of the same entry and timestamp are sent with one header
C29_OneHeader ==
    /\ WriteMade /\ Len(op.body) = 2 /\ Len(Described) = 1
    /\ op.body[1].entry = op.body[2].entry
    /\ op.body[1].timestamp = op.body[2].timestamp
    /\ op.record_headers.content_length = 2

(* A response whose body ends early ---------------------------------------*)

\* bytes missing at the end of a body
MaxCut == 2

\* a GET response of a page whose body ends before the last bytes of the
\* payloads: the connection delivered fewer bytes than the headers announce
ShortInit ==
    /\ CodecIdle
    /\ RowIdle
    /\ CursorIdle
    /\ OpIdle
    /\ impl \in Impls
    /\ page \in Pages
    /\ \E protocol \in Protocols(impl), cut \in 1..MaxCut :
          /\ protocol = "v1" => \A i \in 1..Len(page) : page[i].entry = DefaultEntry
          /\ cut <= PageSize(page)
          /\ resp = [ServerResponse("GET", protocol, page, Absent, FALSE)
                        EXCEPT !.body = SubSeq(@, 1, PageSize(page) - cut)]
    /\ resp_pos = 0
    /\ resp_body = NoBody
    /\ gen = GenStart
    /\ yielded = <<>>
    /\ got = <<>>

\* the event loop resumes the generator whenever its read of the body has
\* returned, and a read at the end of the body returns at once
SpecShortFair == ShortInit /\ [][NextDemux]_vars /\ WF_vars(ReadResponse)

(* C30 ---------------------------------------------------------------------*)

\* C30: buffering a non-final record always terminates: read_response
\* returns after finitely many reads of the body, also when the body ends
\* before content_length bytes were delivered
C30_Terminates == (gen.pc = "reading") ~> (gen.pc # "reading")

\* read_response is in its loop at the end of the body with fewer bytes
\* than content_length, and the reads it made there returned no bytes
C30_AtEnd ==
    /\ gen.pc = "reading"
    /\ resp_pos = Len(resp.body)
    /\ gen.count < gen.decoded.items[gen.records_count].content_length
    /\ EmptyChunks(gen.chunks) = MaxEmptyReads

=============================================================================
